------------------------ MODULE QuartzMailboxProofs ------------------------
(***************************************************************************)
(* Theorems about QuartzMailbox, for every number of slots and clients:    *)
(* its types, when it may crash, and that the free slots are counted by    *)
(* its semaphore, for any number of senders.                               *)
(***************************************************************************)
EXTENDS QuartzMailbox, FiniteSetTheorems, TLAPS

LEMMA RestType ==
  ASSUME NEW S, NEW q \in Seq(S)
  PROVE  Rest(q) \in Seq(S)
  BY DEF Rest

LEMMA InitialStackType ==
  [i \in 1 .. N - 1 |-> i - 1] \in Seq(Slots)
  <1>1. N - 1 \in Nat
    BY SlotAssumption
  <1>2. \A i \in 1 .. N - 1 : i - 1 \in Slots
    BY SlotAssumption DEF Slots
  <1> QED
    BY <1>1, <1>2

(* The facts about constants that every step of the proof uses. *)
LEMMA Constants ==
  /\ N \in Nat /\ N > 1 /\ N - 1 \in Nat /\ 0 \in 0 .. N
  /\ Dummy \in Slots /\ 0 \in Slots
  /\ Slots \subseteq 0 .. N /\ Slots \subseteq Nat
  /\ Main \in Threads /\ Clients \subseteq Threads /\ Senders \subseteq Clients
  /\ Main \notin Clients
  /\ Kinds \subseteq AllKinds
  /\ Outcomes \subseteq Statuses
  BY SlotAssumption, ThreadAssumption, KindAssumption, OutcomeAssumption
     DEF Dummy, Slots, Threads, Statuses

(* The initial state has its type. *)
LEMMA InitType == Init => TypeOK
  <1> SUFFICES ASSUME Init PROVE TypeOK
    OBVIOUS
  <1> USE Constants, InitialStackType
  <1>1. SlotsTyped
    BY DEF Init, Slots, FlagBits, Statuses, SlotsTyped
  <1>2. BoxTyped
    BY NoneAssumption DEF Init, InitialPermits, BoxTyped
  <1>3. PcTyped
    BY DEF Init, ClientPCs, MainPCs, PcTyped
  <1>4. LocalsTyped
    BY DEF Init, NoCall, AllKinds, DestroyKinds, Modes, LocalsTyped
  <1>5. RegsTyped
    BY DEF Init, RegsTyped
  <1>6. HistoryTyped
    BY DEF Init, Statuses, HistoryTyped
  <1> QED
    BY <1>1, <1>2, <1>3, <1>4, <1>5, <1>6 DEF TypeOK

(* A thread moves to another label. *)
LEMMA ClientGoto ==
  ASSUME PcTyped, NEW c \in Clients, NEW label \in ClientPCs, Goto(c, label)
  PROVE  PcTyped'
  BY Constants DEF PcTyped, Goto

LEMMA MainGoto ==
  ASSUME PcTyped, NEW label \in MainPCs, Goto(Main, label)
  PROVE  PcTyped'
  BY Constants DEF PcTyped, Goto

LEMMA MainWakes ==
  ASSUME PcTyped, NEW s, NEW label \in MainPCs, WakeAll(s, label)
  PROVE  /\ PcTyped'
         /\ \A c \in Clients : pc'[c] \in {"popCas", "link"} => pc'[c] = pc[c]
  <1> "wait" \in ClientPCs
    BY DEF ClientPCs, WaitPCs
  <1> QED
    BY Constants DEF PcTyped, WakeAll

(* What passes the assertion of get_request is a slot. *)
LEMMA ValidSlot ==
  ASSUME NEW i \in 0 .. N, Valid(i)
  PROVE  i \in Slots
  BY Constants DEF Valid, Slots

LEMMA PushType ==
  ASSUME NEW S, NEW q \in Seq(S), NEW e \in S
  PROVE  <<e>> \o q \in Seq(S)
  OBVIOUS

LEMMA ThreadGoto ==
  ASSUME PcTyped, NEW t \in Threads, NEW label \in ClientPCs \cap MainPCs,
         Goto(t, label)
  PROVE  PcTyped'
  BY ClientGoto, MainGoto DEF Threads

(* A step of qtz_send preserves the types. *)
LEMMA SendType ==
  ASSUME TypeOK, NEW c \in Senders, Send(c)
  PROVE  TypeOK'
  <1> USE Constants DEF TypeOK, slotVars, counters, boxVars, locals, hist
  <1>1. ASSUME NEW k \in Kinds, NEW m \in Modes, SendBegin(c, k, m)
        PROVE  TypeOK'
    <2>1. SlotsTyped' /\ BoxTyped'
      BY <1>1 DEF SendBegin, SlotsTyped, BoxTyped
    <2>2. PcTyped'
      BY <1>1, ClientGoto DEF SendBegin, ClientPCs, SendPCs
    <2>3. LocalsTyped'
      BY <1>1 DEF SendBegin, LocalsTyped
    <2>4. RegsTyped'
      BY <1>1 DEF SendBegin, Goto, RegsTyped, PcTyped
    <2>5. HistoryTyped'
      BY <1>1 DEF SendBegin, HistoryTyped
    <2> QED
      BY <2>1, <2>2, <2>3, <2>4, <2>5 DEF TypeOK
  <1>2. ASSUME AcquireSlot(c) PROVE TypeOK'
    <2>1. SlotsTyped' /\ BoxTyped'
      BY <1>2 DEF AcquireSlot, PermitFree, SlotsTyped, BoxTyped
    <2>2. PcTyped'
      BY <1>2, ClientGoto DEF AcquireSlot, ClientPCs, SendPCs
    <2>3. LocalsTyped'
      BY <1>2 DEF AcquireSlot, Modes, LocalsTyped
    <2>4. RegsTyped'
      BY <1>2 DEF AcquireSlot, Goto, RegsTyped, PcTyped
    <2>5. HistoryTyped'
      BY <1>2 DEF AcquireSlot, HistoryTyped
    <2> QED
      BY <2>1, <2>2, <2>3, <2>4, <2>5 DEF TypeOK
  <1>3. ASSUME AcquireFail(c) PROVE TypeOK'
    <2>1. SlotsTyped' /\ BoxTyped'
      BY <1>3 DEF AcquireFail, PermitsAfterFailure, SlotsTyped, BoxTyped
    <2>2. PcTyped'
      BY <1>3, ClientGoto DEF AcquireFail, ClientPCs, SendPCs
    <2>3. LocalsTyped'
      BY <1>3 DEF AcquireFail, Forget, NoCall, Modes, AllKinds,
         DestroyKinds, LocalsTyped
    <2>4. RegsTyped'
      BY <1>3 DEF AcquireFail, Goto, RegsTyped, PcTyped
    <2>5. HistoryTyped'
      BY <1>3 DEF AcquireFail, HistoryTyped
    <2> QED
      BY <2>1, <2>2, <2>3, <2>4, <2>5 DEF TypeOK
  <1>4. ASSUME LoadFree(c) PROVE TypeOK'
    <2>1. SlotsTyped' /\ BoxTyped'
      BY <1>4 DEF LoadFree, SlotsTyped, BoxTyped
    <2>2. PcTyped'
      BY <1>4, ClientGoto DEF LoadFree, ClientPCs, SendPCs
    <2>3. LocalsTyped'
      BY <1>4 DEF LoadFree, BoxTyped, LocalsTyped
    <2>4. RegsTyped'
      BY <1>4 DEF LoadFree, Goto, RegsTyped, PcTyped
    <2>5. HistoryTyped'
      BY <1>4 DEF LoadFree, HistoryTyped
    <2> QED
      BY <2>1, <2>2, <2>3, <2>4, <2>5 DEF TypeOK
  <1>5. ASSUME PopRead(c) PROVE TypeOK'
    <2>1. SlotsTyped' /\ BoxTyped'
      BY <1>5 DEF PopRead, SlotsTyped, BoxTyped
    <2>2. PcTyped'
      BY <1>5, ClientGoto DEF PopRead, ClientPCs, SendPCs
    <2>3. LocalsTyped'
      BY <1>5, ValidSlot DEF PopRead, SlotsTyped, LocalsTyped
    <2>4. RegsTyped'
      BY <1>5, ValidSlot DEF PopRead, LocalsTyped, Goto, RegsTyped, PcTyped
    <2>5. HistoryTyped'
      BY <1>5 DEF PopRead, HistoryTyped
    <2> QED
      BY <2>1, <2>2, <2>3, <2>4, <2>5 DEF TypeOK
  <1>6. ASSUME PopCas(c) PROVE TypeOK'
    <2>1. SlotsTyped' /\ BoxTyped'
      BY <1>6 DEF PopCas, LocalsTyped, SlotsTyped, BoxTyped
    <2>2. PcTyped'
      BY <1>6, ClientGoto DEF PopCas, ClientPCs, SendPCs
    <2>3. LocalsTyped'
      BY <1>6 DEF PopCas, Forget, RegsTyped, BoxTyped, LocalsTyped
    <2>4. RegsTyped'
      BY <1>6 DEF PopCas, Forget, LocalsTyped, Goto, RegsTyped, PcTyped
    <2>5. HistoryTyped'
      BY <1>6, RestType DEF PopCas, HistoryTyped
    <2> QED
      BY <2>1, <2>2, <2>3, <2>4, <2>5 DEF TypeOK
  <1>7. ASSUME Exchange(c) PROVE TypeOK'
    <2>1. SlotsTyped' /\ BoxTyped'
      BY <1>7 DEF Exchange, LocalsTyped, SlotsTyped, BoxTyped
    <2>2. PcTyped'
      BY <1>7, ClientGoto DEF Exchange, ClientPCs, SendPCs
    <2>3. LocalsTyped'
      BY <1>7 DEF Exchange, BoxTyped, LocalsTyped
    <2>4. RegsTyped'
      BY <1>7 DEF Exchange, BoxTyped, LocalsTyped, Goto, RegsTyped, PcTyped
    <2>5. HistoryTyped'
      BY <1>7 DEF Exchange, LocalsTyped, HistoryTyped
    <2> QED
      BY <2>1, <2>2, <2>3, <2>4, <2>5 DEF TypeOK
  <1>8. ASSUME LinkPrevious(c) PROVE TypeOK'
    <2>1. SlotsTyped' /\ BoxTyped'
      BY <1>8 DEF LinkPrevious, Linked, LocalsTyped, SlotsTyped, BoxTyped
    <2>2. PcTyped'
      BY <1>8, ClientGoto DEF LinkPrevious, ClientPCs, SendPCs
    <2>3. LocalsTyped'
      BY <1>8 DEF LinkPrevious, Forget, LocalsTyped
    <2>4. RegsTyped'
      BY <1>8 DEF LinkPrevious, Forget, LocalsTyped, Goto, RegsTyped,
         PcTyped
    <2>5. HistoryTyped'
      BY <1>8 DEF LinkPrevious, HistoryTyped
    <2> QED
      BY <2>1, <2>2, <2>3, <2>4, <2>5 DEF TypeOK
  <1>9. ASSUME Increase(c) PROVE TypeOK'
    <2>1. SlotsTyped' /\ BoxTyped'
      <3>1. slot[c] \in Slots
        BY DEF LocalsTyped
      <3>2. held \cup {slot[c]} \subseteq Slots
        BY <3>1 DEF BoxTyped
      <3>3. held' \subseteq Slots
        BY <1>9, <3>2 DEF Increase, BoxTyped
      <3> QED
        BY <1>9, <3>3 DEF Increase, SlotsTyped, BoxTyped
    <2>2. PcTyped'
      BY <1>9, ClientGoto DEF Increase, ClientPCs, SendPCs
    <2>3. LocalsTyped'
      BY <1>9 DEF Increase, Forget, NoCall, Modes, AllKinds, DestroyKinds,
         LocalsTyped
    <2>4. RegsTyped'
      BY <1>9 DEF Increase, Goto, RegsTyped, PcTyped
    <2>5. HistoryTyped'
      BY <1>9 DEF Increase, HistoryTyped
    <2> QED
      BY <2>1, <2>2, <2>3, <2>4, <2>5 DEF TypeOK
  <1> QED
    BY <1>1, <1>2, <1>3, <1>4, <1>5, <1>6, <1>7, <1>8, <1>9 DEF Send

(* A step of destroy_request preserves the types. *)
LEMMA DestroyType ==
  ASSUME TypeOK, NEW t \in Threads, DestroyRequest(t)
  PROVE  TypeOK'
  <1> USE Constants DEF TypeOK, slotVars, counters, boxVars, locals, hist
  <1>1. ASSUME Clear(t) PROVE TypeOK'
    <2>1. SlotsTyped' /\ BoxTyped'
      BY <1>1 DEF Clear, ClearedFlags, FlagBits, LocalsTyped, SlotsTyped,
         BoxTyped
    <2>2. PcTyped'
      BY <1>1, ThreadGoto DEF Clear, ClientPCs, MainPCs, DestroyPCs
    <2>3. LocalsTyped'
      BY <1>1 DEF Clear, BoxTyped, LocalsTyped
    <2>4. RegsTyped'
      BY <1>1 DEF Clear, LocalsTyped, Goto, RegsTyped, PcTyped
    <2>5. HistoryTyped'
      BY <1>1 DEF Clear, LocalsTyped, HistoryTyped
    <2> QED
      BY <2>1, <2>2, <2>3, <2>4, <2>5 DEF TypeOK
  <1>2. ASSUME PushLink(t) PROVE TypeOK'
    <2>1. SlotsTyped' /\ BoxTyped'
      BY <1>2 DEF PushLink, LocalsTyped, SlotsTyped, BoxTyped
    <2>2. PcTyped'
      BY <1>2, ThreadGoto DEF PushLink, ClientPCs, MainPCs, DestroyPCs
    <2>3. LocalsTyped'
      BY <1>2 DEF PushLink, LocalsTyped
    <2>4. RegsTyped'
      BY <1>2 DEF PushLink, Goto, RegsTyped, PcTyped
    <2>5. HistoryTyped'
      BY <1>2 DEF PushLink, HistoryTyped
    <2> QED
      BY <2>1, <2>2, <2>3, <2>4, <2>5 DEF TypeOK
  <1>3. ASSUME PushCas(t) PROVE TypeOK'
    <2>1. SlotsTyped' /\ BoxTyped'
      BY <1>3 DEF PushCas, LocalsTyped, SlotsTyped, BoxTyped
    <2>2. PcTyped'
      BY <1>3, ThreadGoto DEF PushCas, ClientPCs, MainPCs, DestroyPCs
    <2>3. LocalsTyped'
      <3>1. UNCHANGED <<slot, nxt, call>>
        BY <1>3 DEF PushCas
      <3>2. reg' \in [Threads -> 0 .. N]
        <4>1. reg' = [reg EXCEPT ![t] = 0] \/ reg' = [reg EXCEPT ![t] = nextFreeSlot]
          BY <1>3 DEF PushCas, Forget
        <4> QED
          BY <4>1, SlotAssumption DEF LocalsTyped, BoxTyped
      <3>3. dying' = [dying EXCEPT ![t] = Dummy] \/ dying' = dying
        BY <1>3 DEF PushCas, Forget
      <3>4. dying' \in [Threads -> Slots]
        BY <3>3, SlotAssumption DEF LocalsTyped, Slots, Dummy
      <3> QED
        BY <3>1, <3>2, <3>4 DEF LocalsTyped
    <2>4. RegsTyped'
      BY <1>3 DEF PushCas, Forget, LocalsTyped, Goto, RegsTyped, PcTyped
    <2>5. HistoryTyped'
      <3>1. <<dying[t]>> \o stack \in Seq(Slots)
        BY PushType DEF LocalsTyped, HistoryTyped
      <3>2. stack' \in Seq(Slots)
        BY <1>3, <3>1 DEF PushCas, HistoryTyped
      <3> QED
        BY <1>3, <3>2 DEF PushCas, HistoryTyped
    <2> QED
      BY <2>1, <2>2, <2>3, <2>4, <2>5 DEF TypeOK
  <1>4. ASSUME Release(t) PROVE TypeOK'
    <2>1. SlotsTyped' /\ BoxTyped'
      BY <1>4 DEF Release, SlotsTyped, BoxTyped
    <2>2. PcTyped'
      BY <1>4, ClientGoto, MainGoto DEF Release, RegsTyped, Threads,
         ClientPCs, MainPCs, DestroyPCs
    <2>3. LocalsTyped'
      BY <1>4 DEF Release, LocalsTyped
    <2>4. RegsTyped'
      BY <1>4 DEF Release, Forget, Goto, RegsTyped, PcTyped
    <2>5. HistoryTyped'
      BY <1>4 DEF Release, HistoryTyped
    <2> QED
      BY <2>1, <2>2, <2>3, <2>4, <2>5 DEF TypeOK
  <1> QED
    BY <1>1, <1>2, <1>3, <1>4 DEF DestroyRequest

(* A step of the mailbox thread preserves the types. *)
LEMMA MainType ==
  ASSUME TypeOK, MainStep
  PROVE  TypeOK'
  <1> USE Constants DEF TypeOK, slotVars, counters, boxVars, locals, hist
  <1>1. ASSUME Decrease PROVE TypeOK'
    <2>1. SlotsTyped' /\ BoxTyped'
      BY <1>1 DEF Decrease, SlotsTyped, BoxTyped
    <2>2. PcTyped'
      BY <1>1, MainGoto DEF Decrease, MainPCs
    <2>3. LocalsTyped'
      BY <1>1 DEF Decrease, LocalsTyped
    <2>4. RegsTyped'
      BY <1>1 DEF Decrease, Goto, RegsTyped, PcTyped
    <2>5. HistoryTyped'
      BY <1>1 DEF Decrease, HistoryTyped
    <2> QED
      BY <2>1, <2>2, <2>3, <2>4, <2>5 DEF TypeOK
  <1>2. ASSUME GetNextQueued PROVE TypeOK'
    <2>1. SlotsTyped' /\ BoxTyped'
      BY <1>2 DEF GetNextQueued, SlotsTyped, BoxTyped
    <2>2. PcTyped'
      BY <1>2, MainGoto DEF GetNextQueued, MainPCs
    <2>3. LocalsTyped'
      BY <1>2, ValidSlot DEF GetNextQueued, SlotsTyped, BoxTyped,
         LocalsTyped
    <2>4. RegsTyped'
      BY <1>2 DEF GetNextQueued, Goto, RegsTyped, PcTyped
    <2>5. HistoryTyped'
      BY <1>2, RestType DEF GetNextQueued, HistoryTyped
    <2> QED
      BY <2>1, <2>2, <2>3, <2>4, <2>5 DEF TypeOK
  <1>3. ASSUME Lock PROVE TypeOK'
    <2>1. SlotsTyped' /\ BoxTyped'
      BY <1>3 DEF Lock, LocalsTyped, SlotsTyped, BoxTyped
    <2>2. PcTyped'
      BY <1>3, MainGoto DEF Lock, MainPCs
    <2>3. LocalsTyped'
      BY <1>3 DEF Lock, LocalsTyped
    <2>4. RegsTyped'
      BY <1>3 DEF Lock, Goto, RegsTyped, PcTyped
    <2>5. HistoryTyped'
      BY <1>3 DEF Lock, HistoryTyped
    <2> QED
      BY <2>1, <2>2, <2>3, <2>4, <2>5 DEF TypeOK
  <1>4. ASSUME UnlockPrevious PROVE TypeOK'
    <2>1. SlotsTyped' /\ BoxTyped'
      BY <1>4 DEF UnlockPrevious, LocalsTyped, FlagBits, SlotsTyped,
         BoxTyped
    <2>2. PcTyped'
      BY <1>4, MainGoto DEF UnlockPrevious, StartDestroy, DestroyPCs,
         MainPCs
    <2>3. LocalsTyped'
      BY <1>4 DEF UnlockPrevious, StartDestroy, BoxTyped, LocalsTyped
    <2>4. RegsTyped'
      BY <1>4 DEF UnlockPrevious, StartDestroy, Goto, RegsTyped, PcTyped
    <2>5. HistoryTyped'
      BY <1>4 DEF UnlockPrevious, HistoryTyped
    <2> QED
      BY <2>1, <2>2, <2>3, <2>4, <2>5 DEF TypeOK
  <1>5. ASSUME Dispatch PROVE TypeOK'
    <2>1. SlotsTyped' /\ BoxTyped'
      BY <1>5, ZenonT(60) DEF Dispatch, StatusStored, RequestKept, LocalsTyped,
         SlotsTyped, BoxTyped
    <2>2. PcTyped'
      BY <1>5, MainGoto DEF Dispatch, MainPCs
    <2>3. LocalsTyped'
      BY <1>5 DEF Dispatch, LocalsTyped
    <2>4. RegsTyped'
      BY <1>5 DEF Dispatch, Goto, RegsTyped, PcTyped
    <2>5. HistoryTyped'
      <3>1. \A st : answer' = [answer EXCEPT ![slot[Main]] = st]
                     /\ st \in Statuses
                  => answer' \in [Slots -> Statuses \cup {"none"}]
        BY DEF LocalsTyped, HistoryTyped
      <3>2. answer' \in [Slots -> Statuses \cup {"none"}]
        BY <1>5, <3>1 DEF Dispatch, Statuses, HistoryTyped
      <3> QED
        BY <1>5, <3>2 DEF Dispatch, HistoryTyped
    <2> QED
      BY <2>1, <2>2, <2>3, <2>4, <2>5 DEF TypeOK
  <1>6. ASSUME ActionNotify PROVE TypeOK'
    <2>1. SlotsTyped' /\ BoxTyped'
      BY <1>6 DEF ActionNotify, LocalsTyped, FlagBits, SlotsTyped, BoxTyped
    <2>2. PcTyped'
      BY <1>6, MainGoto DEF ActionNotify, StartDestroy, DestroyPCs, MainPCs
    <2>3. LocalsTyped'
      BY <1>6 DEF ActionNotify, StartDestroy, LocalsTyped
    <2>4. RegsTyped'
      BY <1>6 DEF ActionNotify, StartDestroy, Goto, RegsTyped, PcTyped
    <2>5. HistoryTyped'
      BY <1>6 DEF ActionNotify, HistoryTyped
    <2> QED
      BY <2>1, <2>2, <2>3, <2>4, <2>5 DEF TypeOK
  <1>7. ASSUME NotifyAll PROVE TypeOK'
    <2>1. SlotsTyped' /\ BoxTyped'
      BY <1>7 DEF NotifyAll, SlotsTyped, BoxTyped
    <2>2. PcTyped'
      BY <1>7, MainWakes DEF NotifyAll, MainPCs
    <2>3. LocalsTyped'
      BY <1>7 DEF NotifyAll, LocalsTyped
    <2>4. RegsTyped'
      BY <1>7, MainWakes DEF NotifyAll, MainPCs, Goto, RegsTyped, PcTyped
    <2>5. HistoryTyped'
      BY <1>7 DEF NotifyAll, HistoryTyped
    <2> QED
      BY <2>1, <2>2, <2>3, <2>4, <2>5 DEF TypeOK
  <1>8. ASSUME ActionDestroy PROVE TypeOK'
    <2>1. SlotsTyped' /\ BoxTyped'
      BY <1>8 DEF ActionDestroy, LocalsTyped, FlagBits, SlotsTyped,
         BoxTyped
    <2>2. PcTyped'
      BY <1>8, MainGoto DEF ActionDestroy, StartDestroy, DestroyPCs,
         MainPCs
    <2>3. LocalsTyped'
      BY <1>8 DEF ActionDestroy, StartDestroy, LocalsTyped
    <2>4. RegsTyped'
      BY <1>8 DEF ActionDestroy, StartDestroy, Goto, RegsTyped, PcTyped
    <2>5. HistoryTyped'
      BY <1>8 DEF ActionDestroy, HistoryTyped
    <2> QED
      BY <2>1, <2>2, <2>3, <2>4, <2>5 DEF TypeOK
  <1>9. ASSUME CheckClose PROVE TypeOK'
    <2>1. SlotsTyped' /\ BoxTyped'
      BY <1>9 DEF CheckClose, SlotsTyped, BoxTyped
    <2>2. PcTyped'
      BY <1>9, MainGoto DEF CheckClose, MainPCs
    <2>3. LocalsTyped'
      BY <1>9 DEF CheckClose, Forget, LocalsTyped
    <2>4. RegsTyped'
      BY <1>9 DEF CheckClose, Goto, RegsTyped, PcTyped
    <2>5. HistoryTyped'
      BY <1>9 DEF CheckClose, HistoryTyped
    <2> QED
      BY <2>1, <2>2, <2>3, <2>4, <2>5 DEF TypeOK
  <1>10. ASSUME MarkKilled PROVE TypeOK'
    <2>1. SlotsTyped' /\ BoxTyped'
      BY <1>10 DEF MarkKilled, FlagBits, SlotsTyped, BoxTyped
    <2>2. PcTyped'
      BY <1>10, MainGoto DEF MarkKilled, MainPCs
    <2>3. LocalsTyped'
      BY <1>10 DEF MarkKilled, LocalsTyped
    <2>4. RegsTyped'
      BY <1>10 DEF MarkKilled, Goto, RegsTyped, PcTyped
    <2>5. HistoryTyped'
      BY <1>10 DEF MarkKilled, HistoryTyped
    <2> QED
      BY <2>1, <2>2, <2>3, <2>4, <2>5 DEF TypeOK
  <1>11. ASSUME WakeKiller PROVE TypeOK'
    <2>1. SlotsTyped' /\ BoxTyped'
      BY <1>11 DEF WakeKiller, SlotsTyped, BoxTyped
    <2>2. PcTyped'
      BY <1>11, MainWakes DEF WakeKiller, MainPCs
    <2>3. LocalsTyped'
      BY <1>11 DEF WakeKiller, LocalsTyped
    <2>4. RegsTyped'
      BY <1>11, MainWakes DEF WakeKiller, MainPCs, Goto, RegsTyped, PcTyped
    <2>5. HistoryTyped'
      BY <1>11 DEF WakeKiller, HistoryTyped
    <2> QED
      BY <2>1, <2>2, <2>3, <2>4, <2>5 DEF TypeOK
  <1> QED
    BY <1>1, <1>2, <1>3, <1>4, <1>5, <1>6, <1>7, <1>8, <1>9, <1>10, <1>11,
       DestroyType DEF MainStep

(* A step of qtz_wait or qtz_discard preserves the types. *)
LEMMA CollectType ==
  ASSUME TypeOK, NEW c \in Clients, Collect(c)
  PROVE  TypeOK'
  <1> USE Constants DEF TypeOK, slotVars, counters, boxVars, locals, hist
  <1>1. ASSUME NEW s \in Slots, NEW m \in Modes, WaitBegin(c, s, m)
        PROVE  TypeOK'
    <2>1. SlotsTyped' /\ BoxTyped'
      BY <1>1 DEF WaitBegin, SlotsTyped, BoxTyped
    <2>2. PcTyped'
      BY <1>1, ClientGoto DEF WaitBegin, ClientPCs, WaitPCs
    <2>3. LocalsTyped'
      BY <1>1 DEF WaitBegin, LocalsTyped
    <2>4. RegsTyped'
      BY <1>1 DEF WaitBegin, Goto, RegsTyped, PcTyped
    <2>5. HistoryTyped'
      BY <1>1 DEF WaitBegin, HistoryTyped
    <2> QED
      BY <2>1, <2>2, <2>3, <2>4, <2>5 DEF TypeOK
  <1>2. ASSUME WaitReady(c) PROVE TypeOK'
    <2>1. SlotsTyped' /\ BoxTyped'
      BY <1>2 DEF WaitReady, SlotsTyped, BoxTyped
    <2>2. PcTyped'
      BY <1>2, ClientGoto DEF WaitReady, ClientPCs, WaitPCs
    <2>3. LocalsTyped'
      BY <1>2 DEF WaitReady, Forget, NoCall, Modes, AllKinds, DestroyKinds,
         LocalsTyped
    <2>4. RegsTyped'
      BY <1>2 DEF WaitReady, Goto, RegsTyped, PcTyped
    <2>5. HistoryTyped'
      BY <1>2 DEF WaitReady, HistoryTyped
    <2> QED
      BY <2>1, <2>2, <2>3, <2>4, <2>5 DEF TypeOK
  <1>3. ASSUME ReadStatus(c) PROVE TypeOK'
    <2>1. SlotsTyped' /\ BoxTyped'
      BY <1>3 DEF ReadStatus, SlotsTyped, BoxTyped
    <2>2. PcTyped'
      BY <1>3, ClientGoto DEF ReadStatus, ClientPCs, WaitPCs
    <2>3. LocalsTyped'
      BY <1>3 DEF ReadStatus, LocalsTyped
    <2>4. RegsTyped'
      BY <1>3 DEF ReadStatus, Goto, RegsTyped, PcTyped
    <2>5. HistoryTyped'
      BY <1>3 DEF ReadStatus, HistoryTyped
    <2> QED
      BY <2>1, <2>2, <2>3, <2>4, <2>5 DEF TypeOK
  <1>4. ASSUME WaitSleep(c) PROVE TypeOK'
    <2>1. SlotsTyped' /\ BoxTyped'
      BY <1>4 DEF WaitSleep, SlotsTyped, BoxTyped
    <2>2. PcTyped'
      BY <1>4, ClientGoto DEF WaitSleep, ClientPCs, WaitPCs
    <2>3. LocalsTyped'
      BY <1>4 DEF WaitSleep, LocalsTyped
    <2>4. RegsTyped'
      BY <1>4 DEF WaitSleep, Goto, RegsTyped, PcTyped
    <2>5. HistoryTyped'
      BY <1>4 DEF WaitSleep, HistoryTyped
    <2> QED
      BY <2>1, <2>2, <2>3, <2>4, <2>5 DEF TypeOK
  <1>5. ASSUME WaitNotReady(c) PROVE TypeOK'
    <2>1. SlotsTyped' /\ BoxTyped'
      BY <1>5 DEF WaitNotReady, LocalsTyped, SlotsTyped, BoxTyped
    <2>2. PcTyped'
      BY <1>5, ClientGoto DEF WaitNotReady, ClientPCs, WaitPCs
    <2>3. LocalsTyped'
      BY <1>5 DEF WaitNotReady, Forget, NoCall, Modes, AllKinds,
         DestroyKinds, LocalsTyped
    <2>4. RegsTyped'
      BY <1>5 DEF WaitNotReady, Goto, RegsTyped, PcTyped
    <2>5. HistoryTyped'
      BY <1>5 DEF WaitNotReady, HistoryTyped
    <2> QED
      BY <2>1, <2>2, <2>3, <2>4, <2>5 DEF TypeOK
  <1>6. ASSUME NEW s \in Slots, DiscardBegin(c, s)
        PROVE  TypeOK'
    <2>1. SlotsTyped' /\ BoxTyped'
      BY <1>6 DEF DiscardBegin, SlotsTyped, BoxTyped
    <2>2. PcTyped'
      BY <1>6, ClientGoto DEF DiscardBegin, ClientPCs, WaitPCs
    <2>3. LocalsTyped'
      BY <1>6 DEF DiscardBegin, LocalsTyped
    <2>4. RegsTyped'
      BY <1>6 DEF DiscardBegin, Goto, RegsTyped, PcTyped
    <2>5. HistoryTyped'
      BY <1>6 DEF DiscardBegin, HistoryTyped
    <2> QED
      BY <2>1, <2>2, <2>3, <2>4, <2>5 DEF TypeOK
  <1>7. ASSUME Discard(c) PROVE TypeOK'
    <2>1. SlotsTyped' /\ BoxTyped'
      BY <1>7 DEF Discard, LocalsTyped, FlagBits, SlotsTyped, BoxTyped
    <2>2. PcTyped'
      BY <1>7, ClientGoto DEF Discard, StartDestroy, DestroyPCs, ClientPCs,
         WaitPCs
    <2>3. LocalsTyped'
      BY <1>7 DEF Discard, StartDestroy, Forget, LocalsTyped
    <2>4. RegsTyped'
      BY <1>7 DEF Discard, StartDestroy, Goto, RegsTyped, PcTyped
    <2>5. HistoryTyped'
      BY <1>7 DEF Discard, HistoryTyped
    <2> QED
      BY <2>1, <2>2, <2>3, <2>4, <2>5 DEF TypeOK
  <1> QED
    BY <1>1, <1>2, <1>3, <1>4, <1>5, <1>6, <1>7, DestroyType DEF Collect

(* Every variable keeps its type, whatever the number of slots, clients    *)
(* and senders: no list index leaves the slot array of the constructor     *)
(* but the end mark N, which get_request refuses.                          *)
THEOREM TypeCorrect == Spec => []TypeOK
  <1>1. Init => TypeOK
    BY InitType
  <1>2. TypeOK /\ [Next]_vars => TypeOK'
    <2> SUFFICES ASSUME TypeOK, [Next]_vars PROVE TypeOK'
      OBVIOUS
    <2>1. CASE MainStep
      BY <2>1, MainType
    <2>2. ASSUME NEW c \in Senders, Send(c) PROVE TypeOK'
      BY <2>2, SendType
    <2>3. ASSUME NEW c \in Clients, Collect(c) PROVE TypeOK'
      BY <2>3, CollectType
    <2>4. CASE DestroyMailbox
      BY <2>4 DEF DestroyMailbox, TypeOK, SlotsTyped, BoxTyped, PcTyped,
         LocalsTyped, RegsTyped, HistoryTyped, slotVars, counters, locals,
         hist
    <2>5. CASE UNCHANGED vars
      BY <2>5 DEF vars, TypeOK, SlotsTyped, BoxTyped, PcTyped, LocalsTyped,
         RegsTyped, HistoryTyped, slotVars, counters, boxVars, locals, hist
    <2> QED
      BY <2>1, <2>2, <2>3, <2>4, <2>5 DEF Next
  <1> QED
    BY <1>1, <1>2, PTL DEF Spec
----------------------------------------------------------------------------
(* The exit hook: the loop of the mailbox thread follows a null            *)
(* killRequest only when the hook has closed the mailbox.                  *)

(* shouldClose has two causes: a kill request, which proc_kill remembers,  *)
(* and the exit hook, which sends none.                                    *)
ClosedForReason == shouldClose => killRequest # None \/ exitHook

ExitInv == ClosedForReason /\ CrashOnlyAtExit

\* What most steps do: they touch neither flag nor the request remembered.
Untouched == UNCHANGED <<shouldClose, killRequest, exitHook>>

LEMMA SlotNotNone == \A s \in Slots : s # None
  BY NoneAssumption, Constants

LEMMA UntouchedKeeps ==
  ASSUME ExitInv, Untouched, pc'[Main] = "crashed" => pc[Main] = "crashed"
  PROVE  ExitInv'
  BY DEF ExitInv, Untouched, ClosedForReason, CrashOnlyAtExit

(* A client's step moves that client alone.                                *)
LEMMA ClientKeepsExit ==
  ASSUME TypeOK, ExitInv, NEW c \in Clients, NEW l, Goto(c, l), Untouched
  PROVE  ExitInv'
  <1>1. pc'[Main] = pc[Main]
    BY Constants DEF Goto, TypeOK, PcTyped
  <1> QED
    BY <1>1, UntouchedKeeps

LEMMA MainKeepsUp ==
  ASSUME TypeOK, ExitInv, NEW l, Goto(Main, l), l # "crashed", Untouched
  PROVE  ExitInv'
  <1>1. pc'[Main] = l
    BY Constants DEF Goto, TypeOK, PcTyped
  <1> QED
    BY <1>1, UntouchedKeeps

LEMMA DestroyKeepsExit ==
  ASSUME TypeOK, ExitInv, NEW t \in Threads, DestroyRequest(t)
  PROVE  ExitInv'
  <1>1. Untouched
    BY DEF DestroyRequest, Clear, PushLink, PushCas, Release, boxVars, Untouched
  <1>2. ret[t] # "crashed"
    BY DEF TypeOK, RegsTyped
  <1>3. \E l : l # "crashed" /\ Goto(t, l)
    BY <1>2 DEF DestroyRequest, Clear, PushLink, PushCas, Release
  <1> QED
    BY <1>1, <1>3, ClientKeepsExit, MainKeepsUp DEF Threads

LEMMA SendKeepsExit ==
  ASSUME TypeOK, ExitInv, NEW c \in Senders, Send(c)
  PROVE  ExitInv'
  <1>1. Untouched
    BY DEF Send, SendBegin, AcquireSlot, AcquireFail, LoadFree, PopRead, PopCas,
           Exchange, LinkPrevious, Increase, boxVars, Untouched
  <1>2. \E l : Goto(c, l)
    BY DEF Send, SendBegin, AcquireSlot, AcquireFail, LoadFree, PopRead, PopCas,
           Exchange, LinkPrevious, Increase
  <1> QED
    BY <1>1, <1>2, ClientKeepsExit, Constants

LEMMA CollectKeepsExit ==
  ASSUME TypeOK, ExitInv, NEW c \in Clients, Collect(c)
  PROVE  ExitInv'
  <1>1. CASE DestroyRequest(c)
    BY <1>1, DestroyKeepsExit, Constants
  <1>2. CASE ~ DestroyRequest(c)
    <2>1. Untouched
      BY <1>2 DEF Collect, WaitBegin, DiscardBegin, WaitReady, ReadStatus, WaitSleep,
             WaitNotReady, Discard, boxVars, Untouched
    <2>2. \E l : Goto(c, l)
      BY <1>2 DEF Collect, WaitBegin, DiscardBegin, WaitReady, ReadStatus, WaitSleep,
             WaitNotReady, Discard, StartDestroy
    <2> QED
      BY <2>1, <2>2, ClientKeepsExit
  <1> QED
    BY <1>1, <1>2

LEMMA MainKeepsExit ==
  ASSUME TypeOK, ExitInv, MainStep
  PROVE  ExitInv'
  <1>1. CASE DestroyRequest(Main)
    BY <1>1, DestroyKeepsExit, Constants
  <1>2. CASE Decrease \/ GetNextQueued \/ Lock
    <2>1. Untouched /\ \E l : l # "crashed" /\ Goto(Main, l)
      BY <1>2 DEF Decrease, GetNextQueued, Lock, boxVars, Untouched
    <2> QED
      BY <2>1, MainKeepsUp
  <1>3. CASE UnlockPrevious \/ ActionNotify \/ ActionDestroy \/ MarkKilled
    <2>1. Untouched
      BY <1>3 DEF UnlockPrevious, ActionNotify, ActionDestroy, MarkKilled, boxVars, Untouched
    <2>2. \E l : l # "crashed" /\ Goto(Main, l)
      BY <1>3 DEF UnlockPrevious, ActionNotify, ActionDestroy, MarkKilled, StartDestroy
    <2> QED
      BY <2>1, <2>2, MainKeepsUp
  <1>4. CASE NotifyAll \/ WakeKiller
    <2>1. Untouched /\ pc'[Main] \in {"checkClose", "stopped"}
      BY <1>4, Constants DEF NotifyAll, WakeKiller, WakeAll, boxVars, Untouched
    <2> QED
      BY <2>1, UntouchedKeeps
  <1>5. CASE Dispatch
    <2>1. CASE Untouched /\ \E l : l # "crashed" /\ Goto(Main, l)
      BY <2>1, MainKeepsUp
    <2>2. CASE /\ killRequest' = slot[Main] /\ UNCHANGED exitHook
               /\ Goto(Main, "checkClose")
      <3>1. slot[Main] \in Slots /\ pc'[Main] = "checkClose"
        BY <2>2, Constants DEF TypeOK, LocalsTyped, PcTyped, Goto
      <3> QED
        BY <2>2, <3>1, SlotNotNone DEF ExitInv, ClosedForReason, CrashOnlyAtExit
    <2> QED
      BY <1>5, <2>1, <2>2 DEF Dispatch, RequestKept, boxVars, Untouched
  \* Only here may the mailbox thread follow the null request.
  <1>6. CASE CheckClose
    <2>1. Untouched
      BY <1>6 DEF CheckClose, boxVars, Untouched
    <2>2. pc'[Main] = "crashed" => shouldClose /\ killRequest = None
      BY <1>6, Constants DEF CheckClose, Goto, TypeOK, PcTyped
    <2> QED
      BY <2>1, <2>2 DEF ExitInv, ClosedForReason, CrashOnlyAtExit, Untouched
  <1> QED
    BY <1>1, <1>2, <1>3, <1>4, <1>5, <1>6 DEF MainStep
----------------------------------------------------------------------------
(* However many threads send, wait and discard while the process exits,    *)
(* the mailbox thread dereferences a null killRequest only if              *)
(* destroyMailbox has run: proc_kill never leaves it null.                 *)
THEOREM CrashCorrect == Spec => []CrashOnlyAtExit
  <1>1. Init => ExitInv
    BY Constants DEF Init, ExitInv, ClosedForReason, CrashOnlyAtExit
  <1>2. TypeOK /\ ExitInv /\ [Next]_vars => ExitInv'
    <2> SUFFICES ASSUME TypeOK, ExitInv, [Next]_vars PROVE ExitInv'
      OBVIOUS
    <2>1. CASE MainStep
      BY <2>1, MainKeepsExit
    <2>2. ASSUME NEW c \in Senders, Send(c) PROVE ExitInv'
      BY <2>2, SendKeepsExit
    <2>3. ASSUME NEW c \in Clients, Collect(c) PROVE ExitInv'
      BY <2>3, CollectKeepsExit
    <2>4. CASE DestroyMailbox
      BY <2>4 DEF DestroyMailbox, ExitInv, ClosedForReason, CrashOnlyAtExit
    <2>5. CASE UNCHANGED vars
      BY <2>5 DEF vars, boxVars, ExitInv, ClosedForReason, CrashOnlyAtExit
    <2> QED
      BY <2>1, <2>2, <2>3, <2>4, <2>5 DEF Next
  <1>3. ExitInv => CrashOnlyAtExit
    BY DEF ExitInv
  <1> QED
    BY <1>1, <1>2, <1>3, TypeCorrect, PTL DEF Spec
----------------------------------------------------------------------------
(* Permits                                                                 *)

\* The threads of T that are at one of the labels L.
At(T, f, L) == {t \in T : f[t] \in L}

Labels   == ClientPCs \cup MainPCs
PopPCs   == {"loadFree", "popRead", "popCas"}
Popping  == At(Senders, pc, PopPCs)
Pushed   == At(Threads, pc, {"release"})

(* A thread that enters L is counted once more.                            *)
LEMMA EnterAt ==
  ASSUME NEW T \in SUBSET Threads, IsFiniteSet(T),
         NEW f \in [Threads -> Labels], NEW t \in T, NEW l, NEW L, f[t] \notin L, l \in L
  PROVE  Cardinality(At(T, [f EXCEPT ![t] = l], L)) = Cardinality(At(T, f, L)) + 1
  <1>1. IsFiniteSet(At(T, f, L))
    <2>1. At(T, f, L) \in SUBSET T
      BY DEF At
    <2> QED
      BY <2>1, FS_Subset
  <1>2. At(T, [f EXCEPT ![t] = l], L) = At(T, f, L) \cup {t}
    BY DEF At
  <1>3. t \notin At(T, f, L)
    BY DEF At
  <1> QED
    BY <1>1, <1>2, <1>3, FS_AddElement

(* A thread that leaves L is counted no more.                              *)
LEMMA LeaveAt ==
  ASSUME NEW T \in SUBSET Threads, IsFiniteSet(T),
         NEW f \in [Threads -> Labels], NEW t \in T, NEW l, NEW L, f[t] \in L, l \notin L
  PROVE  Cardinality(At(T, [f EXCEPT ![t] = l], L)) = Cardinality(At(T, f, L)) - 1
  <1>1. IsFiniteSet(At(T, f, L))
    <2>1. At(T, f, L) \in SUBSET T
      BY DEF At
    <2> QED
      BY <2>1, FS_Subset
  <1>2. At(T, [f EXCEPT ![t] = l], L) = At(T, f, L) \ {t}
    BY DEF At
  <1>3. t \in At(T, f, L)
    BY DEF At
  <1>4. Cardinality(At(T, f, L) \ {t}) = Cardinality(At(T, f, L)) - 1
    BY <1>1, <1>3, FS_RemoveElement
  <1> QED
    BY <1>2, <1>4

LEMMA FiniteThreads == IsFiniteSet(Threads) /\ IsFiniteSet(Senders)
  <1>1. IsFiniteSet(Clients \cup {Main})
    BY ThreadAssumption, FS_AddElement
  <1>2. Senders \in SUBSET Threads
    BY Constants
  <1> QED
    BY <1>1, <1>2, FS_Subset DEF Threads

LEMMA Counts ==
  ASSUME TypeOK
  PROVE  Cardinality(Popping) \in Nat /\ Cardinality(Pushed) \in Nat
  <1>1. Popping \in SUBSET Senders /\ Pushed \in SUBSET Threads
    BY DEF Popping, Pushed, At
  <1> QED
    BY <1>1, FiniteThreads, FS_Subset, FS_CardinalityType

\* PermitsMatchPool, with the counts by name.
Balanced ==
  Len(stack) = slotSemaphore + Cardinality(Popping) + Cardinality(Pushed)

LEMMA PermitsBalanced == PermitsMatchPool <=> Balanced
  <1>1. {c \in Senders : pc[c] \in {"loadFree", "popRead", "popCas"}} = Popping
    BY DEF Popping, At, PopPCs
  <1>2. {t \in Threads : pc[t] = "release"} = Pushed
    BY DEF Pushed, At
  <1> QED
    BY <1>1, <1>2 DEF PermitsMatchPool, Balanced

(* The threads counted after a thread t has gone to label l.               *)
LEMMA AfterGoto ==
  ASSUME TypeOK, NEW t \in Threads, NEW l, Goto(t, l)
  PROVE  /\ pc \in [Threads -> Labels]
         /\ Popping' = At(Senders, [pc EXCEPT ![t] = l], PopPCs)
         /\ Pushed'  = At(Threads, [pc EXCEPT ![t] = l], {"release"})
  BY DEF TypeOK, PcTyped, Goto, Popping, Pushed, At, Labels

(* A step that touches neither pool nor semaphore and moves a thread       *)
(* between labels that count alike.                                        *)
LEMMA QuietMove ==
  ASSUME TypeOK, Balanced, NEW t \in Threads, NEW l, Goto(t, l),
         pc[t] \in PopPCs <=> l \in PopPCs,
         pc[t] = "release" <=> l = "release",
         UNCHANGED <<stack, slotSemaphore>>
  PROVE  Balanced'
  <1>1. Popping' = Popping
    <2>1. At(Senders, [pc EXCEPT ![t] = l], PopPCs) = At(Senders, pc, PopPCs)
      BY AfterGoto, Constants DEF At
    <2> QED
      BY <2>1, AfterGoto DEF Popping
  <1>2. Pushed' = Pushed
    <2>1. At(Threads, [pc EXCEPT ![t] = l], {"release"}) = At(Threads, pc, {"release"})
      BY AfterGoto DEF At
    <2> QED
      BY <2>1, AfterGoto DEF Pushed
  <1> QED
    BY <1>1, <1>2 DEF Balanced

\* The same for a thread that goes between two labels of no count.
LEMMA QuietGoto ==
  ASSUME TypeOK, Balanced, NEW t \in Threads, NEW l, Goto(t, l),
         pc[t] \notin PopPCs \cup {"release"}, l \notin PopPCs \cup {"release"},
         UNCHANGED <<stack, slotSemaphore>>
  PROVE  Balanced'
  BY QuietMove

(* Waking sleepers moves them, and the mailbox thread, between labels of   *)
(* no count.                                                               *)
LEMMA QuietWake ==
  ASSUME TypeOK, Balanced, NEW s, NEW l, WakeAll(s, l),
         l \notin PopPCs \cup {"release"}, pc[Main] \notin PopPCs \cup {"release"},
         UNCHANGED <<stack, slotSemaphore>>
  PROVE  Balanced'
  <1>1. Popping' = Popping
    BY Constants DEF WakeAll, AsleepOn, Popping, At, PopPCs
  <1>2. Pushed' = Pushed
    BY Constants DEF WakeAll, AsleepOn, Pushed, At
  <1> QED
    BY <1>1, <1>2 DEF Balanced
----------------------------------------------------------------------------
(* A step of qtz_send that does not abort keeps the balance.               *)
LEMMA SendBalanced ==
  ASSUME TypeOK, Balanced, NEW c \in Senders, Send(c), NoAbort'
  PROVE  Balanced'
  <1> USE Constants DEF hist, counters, PopPCs
  <1>1. ASSUME NEW k \in Kinds, NEW m \in Modes, SendBegin(c, k, m)
        PROVE  Balanced'
    BY <1>1, QuietGoto DEF SendBegin
  <1>2. ASSUME AcquireSlot(c) PROVE Balanced'
    <2>1. Cardinality(Popping') = Cardinality(Popping) + 1
      <3>1. Goto(c, "loadFree") /\ pc[c] \notin PopPCs
        BY <1>2 DEF AcquireSlot
      <3>2. Cardinality(At(Senders, [pc EXCEPT ![c] = "loadFree"], PopPCs))
              = Cardinality(At(Senders, pc, PopPCs)) + 1
        BY <3>1, EnterAt, AfterGoto, FiniteThreads
      <3> QED
        BY <3>1, <3>2, AfterGoto DEF Popping
    <2>2. Pushed' = Pushed
      BY <1>2 DEF AcquireSlot, Goto, TypeOK, PcTyped, Pushed, At
    <2>3. slotSemaphore' = slotSemaphore - 1 /\ stack' = stack
      BY <1>2 DEF AcquireSlot
    <2> QED
      BY <2>1, <2>2, <2>3, Counts, SMTT(30) DEF Balanced, TypeOK, BoxTyped
  <1>3. ASSUME AcquireFail(c) PROVE Balanced'
    BY <1>3, QuietGoto DEF AcquireFail, PermitsAfterFailure
  <1>4. ASSUME LoadFree(c) PROVE Balanced'
    BY <1>4, QuietMove DEF LoadFree
  <1>5. ASSUME PopRead(c) PROVE Balanced'
    <2>1. Goto(c, "popCas")
      BY <1>5 DEF PopRead, NoAbort, Goto, TypeOK, PcTyped
    <2> QED
      BY <2>1, <1>5, QuietMove DEF PopRead
  <1>6. ASSUME PopCas(c) PROVE Balanced'
    <2>1. CASE ~HeadUnchanged(c)
      BY <2>1, <1>6, QuietMove DEF PopCas
    <2>2. CASE HeadUnchanged(c)
      <3>1. Goto(c, "exchange") /\ pc[c] \in PopPCs
        BY <2>2, <1>6 DEF PopCas
      <3>2. Cardinality(At(Senders, [pc EXCEPT ![c] = "exchange"], PopPCs))
              = Cardinality(At(Senders, pc, PopPCs)) - 1
        BY <3>1, LeaveAt, AfterGoto, FiniteThreads
      <3>3. Cardinality(Popping') = Cardinality(Popping) - 1
        BY <3>1, <3>2, AfterGoto DEF Popping
      <3>4. Pushed' = Pushed
        BY <3>1 DEF Goto, TypeOK, PcTyped, Pushed, At
      <3>5. slotSemaphore' = slotSemaphore /\ stack' = Rest(stack)
        BY <2>2, <1>6 DEF PopCas
      <3>6. Cardinality(Popping') \in Nat
        <4>1. Popping' \in SUBSET Senders
          BY DEF Popping, At
        <4> QED
          BY <4>1, FiniteThreads, FS_Subset, FS_CardinalityType
      <3>7. Len(stack) > 0
        BY <3>3, <3>6, Counts DEF Balanced, TypeOK, BoxTyped
      <3>8. Len(stack') = Len(stack) - 1
        BY <3>5, <3>7 DEF Rest, TypeOK, HistoryTyped
      <3> QED
        BY <3>3, <3>4, <3>5, <3>8, Counts, SMTT(30) DEF Balanced, TypeOK, BoxTyped
    <2> QED
      BY <2>1, <2>2
  <1>7. ASSUME Exchange(c) PROVE Balanced'
    BY <1>7, QuietGoto DEF Exchange
  <1>8. ASSUME LinkPrevious(c) PROVE Balanced'
    BY <1>8, QuietGoto DEF LinkPrevious
  <1>9. ASSUME Increase(c) PROVE Balanced'
    BY <1>9, QuietGoto DEF Increase
  <1> QED
    BY <1>1, <1>2, <1>3, <1>4, <1>5, <1>6, <1>7, <1>8, <1>9 DEF Send

(* destroy_request adds the slot, then the permit.                         *)
LEMMA DestroyBalanced ==
  ASSUME TypeOK, Balanced, NEW t \in Threads, DestroyRequest(t)
  PROVE  Balanced'
  <1> USE Constants DEF hist, counters, PopPCs
  <1>1. ASSUME Clear(t) PROVE Balanced'
    BY <1>1, QuietGoto DEF Clear
  <1>2. ASSUME PushLink(t) PROVE Balanced'
    BY <1>2, QuietGoto DEF PushLink
  <1>3. ASSUME PushCas(t) PROVE Balanced'
    <2>1. CASE ~HeadUnchanged(t)
      BY <2>1, <1>3, QuietGoto DEF PushCas
    <2>2. CASE HeadUnchanged(t)
      <3>1. Goto(t, "release") /\ pc[t] = "pushCas"
        BY <2>2, <1>3 DEF PushCas
      <3>2. Cardinality(At(Threads, [pc EXCEPT ![t] = "release"], {"release"}))
              = Cardinality(At(Threads, pc, {"release"})) + 1
        BY <3>1, EnterAt, AfterGoto, FiniteThreads
      <3>3. Cardinality(Pushed') = Cardinality(Pushed) + 1
        BY <3>1, <3>2, AfterGoto DEF Pushed
      <3>4. Popping' = Popping
        BY <3>1 DEF Goto, TypeOK, PcTyped, Popping, At
      <3>5. slotSemaphore' = slotSemaphore /\ stack' = <<dying[t]>> \o stack
        BY <2>2, <1>3 DEF PushCas
      <3>6. Len(stack') = Len(stack) + 1
        BY <3>5 DEF TypeOK, HistoryTyped, LocalsTyped
      <3> QED
        BY <3>3, <3>4, <3>5, <3>6, Counts DEF Balanced, TypeOK, BoxTyped
    <2> QED
      BY <2>1, <2>2
  <1>4. ASSUME Release(t) PROVE Balanced'
    <2>1. Goto(t, ret[t]) /\ pc[t] = "release"
      BY <1>4 DEF Release
    <2>2. ret[t] \notin PopPCs \cup {"release"}
      BY DEF TypeOK, RegsTyped
    <2>3. Cardinality(At(Threads, [pc EXCEPT ![t] = ret[t]], {"release"}))
            = Cardinality(At(Threads, pc, {"release"})) - 1
      BY <2>1, <2>2, LeaveAt, AfterGoto, FiniteThreads
    <2>4. Cardinality(Pushed') = Cardinality(Pushed) - 1
      BY <2>1, <2>3, AfterGoto DEF Pushed
    <2>5. Popping' = Popping
      BY <2>1, <2>2 DEF Goto, TypeOK, PcTyped, Popping, At
    <2>6. slotSemaphore' = slotSemaphore + 1 /\ stack' = stack
      BY <1>4 DEF Release
    <2> QED
      BY <2>4, <2>5, <2>6, Counts, SMTT(30) DEF Balanced, TypeOK, BoxTyped
  <1> QED
    BY <1>1, <1>2, <1>3, <1>4 DEF DestroyRequest

(* The mailbox thread touches the pool only through destroy_request.       *)
LEMMA MainBalanced ==
  ASSUME TypeOK, Balanced, MainStep
  PROVE  Balanced'
  <1> USE Constants DEF hist, counters, PopPCs
  <1>1. ASSUME Decrease PROVE Balanced'
    BY <1>1, QuietGoto DEF Decrease
  <1>2. ASSUME GetNextQueued PROVE Balanced'
    BY <1>2, QuietGoto DEF GetNextQueued
  <1>3. ASSUME Lock PROVE Balanced'
    BY <1>3, QuietGoto DEF Lock
  <1>4. ASSUME UnlockPrevious PROVE Balanced'
    BY <1>4, QuietGoto DEF UnlockPrevious, StartDestroy
  <1>5. ASSUME Dispatch PROVE Balanced'
    BY <1>5, QuietGoto DEF Dispatch
  <1>6. ASSUME ActionNotify PROVE Balanced'
    BY <1>6, QuietGoto DEF ActionNotify, StartDestroy
  <1>7. ASSUME NotifyAll PROVE Balanced'
    BY <1>7, QuietWake DEF NotifyAll
  <1>8. ASSUME ActionDestroy PROVE Balanced'
    BY <1>8, QuietGoto DEF ActionDestroy, StartDestroy
  <1>9. ASSUME CheckClose PROVE Balanced'
    BY <1>9, QuietGoto DEF CheckClose
  <1>10. ASSUME MarkKilled PROVE Balanced'
    BY <1>10, QuietGoto DEF MarkKilled
  <1>11. ASSUME WakeKiller PROVE Balanced'
    BY <1>11, QuietWake DEF WakeKiller
  <1> QED
    BY <1>1, <1>2, <1>3, <1>4, <1>5, <1>6, <1>7, <1>8, <1>9, <1>10, <1>11,
       DestroyBalanced DEF MainStep

(* Nor does a client that waits or discards.                               *)
LEMMA CollectBalanced ==
  ASSUME TypeOK, Balanced, NEW c \in Clients, Collect(c)
  PROVE  Balanced'
  <1> USE Constants DEF hist, counters, PopPCs
  <1>1. ASSUME NEW s \in Slots, NEW m \in Modes, WaitBegin(c, s, m)
        PROVE  Balanced'
    BY <1>1, QuietGoto DEF WaitBegin
  <1>2. ASSUME NEW s \in Slots, DiscardBegin(c, s) PROVE Balanced'
    BY <1>2, QuietGoto DEF DiscardBegin
  <1>3. ASSUME WaitReady(c) PROVE Balanced'
    BY <1>3, QuietGoto DEF WaitReady
  <1>4. ASSUME ReadStatus(c) PROVE Balanced'
    BY <1>4, QuietGoto DEF ReadStatus
  <1>5. ASSUME WaitSleep(c) PROVE Balanced'
    BY <1>5, QuietGoto DEF WaitSleep
  <1>6. ASSUME WaitNotReady(c) PROVE Balanced'
    BY <1>6, QuietGoto DEF WaitNotReady
  <1>7. ASSUME Discard(c) PROVE Balanced'
    BY <1>7, QuietGoto DEF Discard, StartDestroy
  <1> QED
    BY <1>1, <1>2, <1>3, <1>4, <1>5, <1>6, <1>7, DestroyBalanced DEF Collect

LEMMA InitBalanced == Init => Balanced
  <1> SUFFICES ASSUME Init PROVE Balanced
    OBVIOUS
  <1>1. Len(stack) = N - 1
    <2>1. stack = [i \in 1 .. N - 1 |-> i - 1] /\ stack \in Seq(Slots)
      BY InitialStackType DEF Init
    <2>2. DOMAIN stack = 1 .. N - 1
      BY <2>1
    <2> QED
      BY <2>1, <2>2, Constants
  <1>2. Popping = {} /\ Pushed = {}
    BY Constants DEF Init, Popping, Pushed, At, PopPCs
  <1> QED
    BY <1>1, <1>2, FS_EmptySet, Constants DEF Init, InitialPermits, Balanced

(* As long as no assertion has failed, the free slots are as many as the   *)
(* permits of slotSemaphore, with those in the hands of a thread that pops *)
(* or has just pushed a slot.                                              *)
THEOREM PermitsCorrect == Spec => [](NoAbort => PermitsMatchPool)
  <1> DEFINE I == NoAbort => Balanced
  <1>1. Init => I
    BY InitBalanced
  <1>2. TypeOK /\ I /\ [Next]_vars => I'
    <2> SUFFICES ASSUME TypeOK, I, [Next]_vars, NoAbort' PROVE Balanced'
      OBVIOUS
    <2>1. CASE UNCHANGED vars
      <3>1. NoAbort /\ Popping' = Popping /\ Pushed' = Pushed
        BY <2>1 DEF vars, NoAbort, Popping, Pushed, At
      <3> QED
        BY <3>1, <2>1 DEF vars, hist, counters, Balanced
    <2>2. CASE Next
      <3>1. Balanced
        BY <2>2 DEF Next, Running, NoAbort
      <3>2. CASE MainStep
        BY <3>1, <3>2, MainBalanced
      <3>3. ASSUME NEW c \in Senders, Send(c) PROVE Balanced'
        BY <3>1, <3>3, SendBalanced
      <3>4. ASSUME NEW c \in Clients, Collect(c) PROVE Balanced'
        BY <3>1, <3>4, CollectBalanced
      <3>5. CASE DestroyMailbox
        <4>1. Popping' = Popping /\ Pushed' = Pushed
          BY <3>5 DEF DestroyMailbox, Popping, Pushed, At
        <4> QED
          BY <3>1, <3>5, <4>1 DEF DestroyMailbox, hist, counters, Balanced
      <3> QED
        BY <2>2, <3>2, <3>3, <3>4, <3>5 DEF Next
    <2> QED
      BY <2>1, <2>2
  <1>3. I => (NoAbort => PermitsMatchPool)
    BY PermitsBalanced
  <1> QED
    BY <1>1, <1>2, <1>3, TypeCorrect, PTL DEF Spec
=============================================================================
