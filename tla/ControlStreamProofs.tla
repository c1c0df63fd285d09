-------------------------- MODULE ControlStreamProofs --------------------------
(***************************************************************************)
(* Proofs about ControlStream, for every set of controls, callers and      *)
(* approvals and every memory of controls: its types, that a stream that   *)
(* is over keeps nobody, and that steering is neither lost nor repeated.   *)
(***************************************************************************)
EXTENDS ControlStream, FiniteSetTheorems, SequenceTheorems, WellFoundedInduction,
        TLAPS

(***************************************************************************)
(* The inductive invariant.  A stop leaves no wait and no approval behind, *)
(* even if the stream is paused again after it; callers wait to be resumed *)
(* only while the stream is paused, and a stream at its end never is.      *)
(***************************************************************************)
Released ==
    /\ ended => ~paused
    /\ ~paused => resumeWaiters = << >>
    /\ ended \/ stopped => Waiting = {} /\ \A a \in Approvals : approval[a] # "pending"

IInv == TypeOK /\ Released

-----------------------------------------------------------------------------
(* Types.                                                                  *)

LEMMA NewestType ==
    ASSUME NEW S, NEW s \in Seq(S), NEW n \in Nat
    PROVE  Newest(s, n) \in Seq(S)
<1> DEFINE first == IF Len(s) > n THEN Len(s) - n + 1 ELSE 1
<1>1. Len(s) \in Nat /\ first \in Nat \ {0}
  OBVIOUS
<1>2. \A i \in first..Len(s) : s[i] \in S
  BY <1>1
<1>3. SubSeq(s, first, Len(s)) \in Seq(S)
  BY <1>1, <1>2, SubSeqProperties
<1> QED BY <1>3 DEF Newest

LEMMA RemoveAtType ==
    ASSUME NEW S, NEW s \in Seq(S), NEW i \in 1..Len(s)
    PROVE  RemoveAt(s, i) \in Seq(S)
<1>1. \A k \in 1..(i - 1) : s[k] \in S
  OBVIOUS
<1>2. \A k \in (i + 1)..Len(s) : s[k] \in S
  OBVIOUS
<1>3. SubSeq(s, 1, i - 1) \in Seq(S)
  BY <1>1, SubSeqProperties
<1>4. SubSeq(s, i + 1, Len(s)) \in Seq(S)
  BY <1>2, SubSeqProperties
<1> QED BY <1>3, <1>4, ConcatProperties DEF RemoveAt

LEMMA LeastElement ==
    ASSUME NEW I \in SUBSET Nat, I # {}
    PROVE  Min(I) \in I
<1>1. \E x \in I : \A y \in I : ~(<<y, x>> \in OpToRel(<, Nat))
  BY NatLessThanWellFounded, WFMin
<1>2. \A x \in Nat : \A y \in Nat : y < x => <<y, x>> \in OpToRel(<, Nat)
  BY Zenon DEF OpToRel
<1>3. \A x \in I : \A y \in I : ~(<<y, x>> \in OpToRel(<, Nat)) => ~(y < x)
  BY <1>2
<1>4. \E x \in I : \A y \in I : ~(y < x)
  BY <1>1, <1>3, Zenon
<1>5. \E x \in I : \A y \in I : x =< y
  BY <1>4
<1> QED BY <1>5 DEF Min

LEMMA RemoveFirstType ==
    ASSUME NEW S, NEW s \in Seq(S), NEW e
    PROVE  RemoveFirst(s, e) \in Seq(S)
<1> DEFINE I == {i \in 1..Len(s) : s[i] = e}
<1>1. CASE I = {}
  BY <1>1 DEF RemoveFirst
<1>2. CASE I # {}
  <2>1. I \in SUBSET Nat
    OBVIOUS
  <2>2. Min(I) \in 1..Len(s)
    BY <1>2, <2>1, LeastElement
  <2>3. RemoveFirst(s, e) = RemoveAt(s, Min(I))
    BY <1>2 DEF RemoveFirst, SelectInSeq
  <2> QED BY <2>2, <2>3, RemoveAtType
<1> QED BY <1>1, <1>2

LEMMA DeliverType ==
    ASSUME TypeOK, NEW s \in Seq(Texts), NEW listeners, IsFiniteSet(listeners), Deliver(s, listeners)
    PROVE  delivered' \in [Texts -> Nat]
<1>1. \A x \in Texts : Occurrences(x, s) \in Nat
  <2>1. IsFiniteSet(DOMAIN s)
    <3>1. DOMAIN s = 1..Len(s) /\ Len(s) \in Nat
      BY LenProperties
    <3> QED BY <3>1, FS_Interval
  <2>2. ASSUME NEW x \in Texts PROVE Cardinality({k \in DOMAIN s : s[k] = x}) \in Nat
    BY <2>1, FS_Subset, FS_CardinalityType
  <2> QED BY <2>2 DEF Occurrences
<1>2. Cardinality(listeners) \in Nat
  BY FS_CardinalityType
<1>3. \A m, n, k \in Nat : k + m * n \in Nat
  OBVIOUS
<1> QED BY <1>1, <1>2, <1>3 DEF Deliver, TypeOK

LEMMA WaitingFinite == IsFiniteSet(Waiting)
BY ControlStreamAssumption, FS_Subset DEF Waiting

\* What every kind of control does to the stream.
StreamType ==
    /\ paused \in BOOLEAN /\ stopped \in BOOLEAN
    /\ queue \in Seq(Texts)
    /\ active \subseteq Steers
    /\ resumeWaiters \in Seq(Callers) /\ ready \in Seq(Callers)
    /\ caller \in [Callers -> {"idle", "resuming", "waiting"}]
    /\ gone \subseteq Abandoned
    /\ approval \in [Approvals -> {"none", "pending", "approved", "denied"}]
    /\ delivered \in [Texts -> Nat]
    /\ paused => ready = << >>

LEMMA SteeringType ==
    ASSUME TypeOK, NEW s \in Seq(Texts), ResolveSteeringWaiters(s)
    PROVE  /\ caller' \in [Callers -> {"idle", "resuming", "waiting"}]
           /\ delivered' \in [Texts -> Nat]
BY DeliverType, WaitingFinite DEF ResolveSteeringWaiters, TypeOK

LEMMA ResumeType ==
    ASSUME TypeOK, ResolveResumeWaiters
    PROVE  ready' \in Seq(Callers) /\ resumeWaiters' \in Seq(Callers)
BY ConcatProperties DEF TypeOK, ResolveResumeWaiters

LEMMA DenyType ==
    ASSUME TypeOK, DenyApprovals
    PROVE  approval' \in [Approvals -> {"none", "pending", "approved", "denied"}]
BY DEF TypeOK, DenyApprovals

LEMMA ApplyType ==
    ASSUME TypeOK, ready = << >>, NEW c \in Controls, Apply(c)
    PROVE  StreamType'
<1>1. << >> \in Seq(Texts)
  OBVIOUS
<1>2. CASE Pause(c)
  BY <1>2 DEF Pause, TypeOK, StreamType, waits
<1>3. CASE Resume(c)
  <2>1. /\ caller' \in [Callers -> {"idle", "resuming", "waiting"}]
        /\ delivered' \in [Texts -> Nat] /\ queue' \in Seq(Texts)
    BY <1>1, <1>3, SteeringType DEF Resume, TypeOK
  <2> QED BY <1>3, <2>1, ResumeType DEF Resume, TypeOK, StreamType
<1>4. CASE Stop(c)
  <2>1. /\ caller' \in [Callers -> {"idle", "resuming", "waiting"}]
        /\ delivered' \in [Texts -> Nat]
    BY <1>1, <1>4, SteeringType DEF Stop
  <2> QED BY <1>4, <2>1, ResumeType, DenyType DEF Stop, TypeOK, StreamType
<1>5. CASE Steer(c)
  <2>1. c \in Steers /\ Text[c] \in Texts
    BY <1>5 DEF Steer, Steers, Texts
  <2>2. Append(queue, Text[c]) \in Seq(Texts)
    BY <2>1 DEF TypeOK
  <2>3. /\ caller' \in [Callers -> {"idle", "resuming", "waiting"}]
        /\ delivered' \in [Texts -> Nat] /\ queue' \in Seq(Texts)
    BY <1>1, <1>5, <2>2, SteeringType DEF Steer, TypeOK
  <2> QED BY <1>5, <2>1, <2>3 DEF Steer, TypeOK, StreamType
<1>6. CASE RemoveSteering(c)
  <2>1. queue' \in Seq(Texts)
    BY <1>6, RemoveFirstType DEF RemoveSteering, TypeOK
  <2> QED BY <1>6, <2>1 DEF RemoveSteering, TypeOK, StreamType, waits
<1>7. CASE ResolveApproval(c)
  BY <1>7 DEF ResolveApproval, TypeOK, StreamType, waits
<1> QED BY <1>2, <1>3, <1>4, <1>5, <1>6, <1>7 DEF Apply

LEMMA LineType ==
    ASSUME TypeOK, End \/ Close \/ \E c \in Controls : Receive(c)
    PROVE  TypeOK'
<1>1. << >> \in Seq(Texts)
  OBVIOUS
<1>2. ASSUME NEW c \in Controls, Receive(c) PROVE TypeOK'
  <2>1. StreamType'
    BY <1>2, ApplyType DEF Receive
  <2>2. Append(processed, c) \in Seq(Controls) /\ Append(recent, c) \in Seq(Controls)
    BY DEF TypeOK
  <2>3. Remembered \in Nat
    BY ControlStreamAssumption
  <2>4. processed' \in Seq(Controls) /\ recent' \in Seq(Controls)
    BY <1>2, <2>2, <2>3, NewestType DEF Receive, Remember
  <2> QED BY <1>2, <2>1, <2>4 DEF Receive, TypeOK, StreamType
<1>3. CASE End
  <2>1. /\ caller' \in [Callers -> {"idle", "resuming", "waiting"}]
        /\ delivered' \in [Texts -> Nat]
    BY <1>3, SteeringType DEF End, TypeOK
  <2> QED BY <1>1, <1>3, <2>1, ResumeType, DenyType DEF End, TypeOK
<1>4. CASE Close
  <2>1. /\ caller' \in [Callers -> {"idle", "resuming", "waiting"}]
        /\ delivered' \in [Texts -> Nat]
    BY <1>1, <1>4, SteeringType DEF Close
  <2> QED BY <1>4, <2>1, ResumeType, DenyType DEF Close, TypeOK
<1> QED BY <1>2, <1>3, <1>4

LEMMA CallerType ==
    ASSUME TypeOK, Continue \/ \E t \in Callers : Call(t) \/ Abandon(t)
    PROVE  TypeOK'
<1>1. CASE Continue
  <2> DEFINE t == Head(ready)
  <2>1. t \in Callers /\ Tail(ready) \in Seq(Callers)
    BY <1>1, HeadTailProperties DEF Continue, TypeOK
  <2>2. IsFiniteSet({t} \ gone)
    BY FS_Singleton, FS_Subset
  <2>3. << >> \in Seq(Texts)
    OBVIOUS
  <2>4. delivered' \in [Texts -> Nat] /\ queue' \in Seq(Texts)
    BY <1>1, <2>2, <2>3, DeliverType DEF Continue, TypeOK
  <2>5. caller' \in [Callers -> {"idle", "resuming", "waiting"}]
    BY <1>1 DEF Continue, TypeOK
  <2>6. ToSet(queue) \subseteq Texts
    BY ElementOfSeq DEF ToSet, TypeOK
  <2>7. lost' \subseteq Texts
    BY <1>1, <2>6 DEF Continue, TypeOK
  <2> QED BY <1>1, <2>1, <2>4, <2>5, <2>7 DEF Continue, TypeOK
<1>2. ASSUME NEW t \in Callers, Call(t) PROVE TypeOK'
  <2>1. Append(ready, t) \in Seq(Callers) /\ Append(resumeWaiters, t) \in Seq(Callers)
    BY DEF TypeOK
  <2>2. /\ ready' \in Seq(Callers) /\ resumeWaiters' \in Seq(Callers)
        /\ paused' => ready' = << >>
    BY <1>2, <2>1 DEF Call, TypeOK
  <2>3. caller' \in [Callers -> {"idle", "resuming", "waiting"}]
    BY <1>2 DEF Call, TypeOK
  <2> QED BY <1>2, <2>2, <2>3 DEF Call, TypeOK, history
<1>3. ASSUME NEW t \in Callers, Abandon(t) PROVE TypeOK'
  <2>1. caller' \in [Callers -> {"idle", "resuming", "waiting"}]
    BY <1>3 DEF Abandon, TypeOK
  <2>2. gone' \subseteq Abandoned
    BY <1>3, ControlStreamAssumption DEF Abandon, TypeOK
  <2> QED BY <1>3, <2>1, <2>2 DEF Abandon, TypeOK, history
<1> QED BY <1>1, <1>2, <1>3

-----------------------------------------------------------------------------
(* Nobody is kept.                                                         *)

LEMMA NobodyWaits ==
    ASSUME TypeOK, NEW s, ResolveSteeringWaiters(s)
    PROVE  Waiting' = {}
BY DEF ResolveSteeringWaiters, Waiting, TypeOK

LEMMA NothingPends ==
    ASSUME TypeOK, DenyApprovals
    PROVE  \A a \in Approvals : approval'[a] # "pending"
BY DEF DenyApprovals, TypeOK

LEMMA LineReleases ==
    ASSUME IInv, End \/ Close \/ \E c \in Controls : Receive(c)
    PROVE  Released'
<1>1. ASSUME NEW c \in Controls, Receive(c) PROVE Released'
  <2>1. ~ended /\ ended' = ended
    BY <1>1 DEF Receive
  <2>2. CASE Pause(c)
    BY <2>1, <2>2 DEF Pause, waits, IInv, Released, Waiting
  <2>3. CASE Resume(c)
    BY <2>1, <2>3, NobodyWaits DEF Resume, ResolveResumeWaiters, IInv, Released, Waiting
  <2>4. CASE Stop(c)
    BY <2>1, <2>4, NobodyWaits, NothingPends DEF Stop, ResolveResumeWaiters, IInv, Released
  <2>5. CASE Steer(c)
    BY <2>1, <2>5, NobodyWaits DEF Steer, IInv, Released, Waiting
  <2>6. CASE RemoveSteering(c)
    BY <2>1, <2>6 DEF RemoveSteering, waits, IInv, Released, Waiting
  <2>7. CASE ResolveApproval(c)
    BY <2>1, <2>7 DEF ResolveApproval, waits, IInv, TypeOK, Released, Waiting
  <2> QED BY <1>1, <2>2, <2>3, <2>4, <2>5, <2>6, <2>7 DEF Receive, Apply
<1>2. CASE End
  BY <1>2, NobodyWaits, NothingPends DEF End, ResolveResumeWaiters, IInv, Released
<1>3. CASE Close
  BY <1>3, NobodyWaits, NothingPends DEF Close, ResolveResumeWaiters, IInv, Released
<1> QED BY <1>1, <1>2, <1>3

LEMMA CallerReleases ==
    ASSUME IInv, Continue \/ \E t \in Callers : Call(t) \/ Abandon(t)
    PROVE  Released'
<1>1. CASE Continue
  BY <1>1 DEF Continue, IInv, TypeOK, Released, Waiting
<1>2. ASSUME NEW t \in Callers, Call(t) PROVE Released'
  BY <1>2 DEF Call, IInv, TypeOK, Released, Waiting, history
<1>3. ASSUME NEW t \in Callers, Abandon(t) PROVE Released'
  BY <1>3 DEF Abandon, IInv, TypeOK, Released, Waiting, history
<1> QED BY <1>1, <1>2, <1>3

LEMMA InitInv == Init => IInv
<1> SUFFICES ASSUME Init PROVE IInv
  OBVIOUS
<1>1. /\ paused \in BOOLEAN /\ stopped \in BOOLEAN /\ ended \in BOOLEAN /\ closed \in BOOLEAN
      /\ queue \in Seq(Texts) /\ processed \in Seq(Controls) /\ recent \in Seq(Controls)
      /\ resumeWaiters \in Seq(Callers) /\ ready \in Seq(Callers)
  BY EmptySeq DEF Init
<1>2. accepted \subseteq Controls /\ gone \subseteq Abandoned /\ ready = << >>
  BY DEF Init
<1>3. active \subseteq Steers /\ lost \subseteq Texts
  BY ControlStreamAssumption DEF Init
<1>4. caller \in [Callers -> {"idle", "resuming", "waiting"}]
  BY DEF Init
<1>5. approval \in [Approvals -> {"none", "pending", "approved", "denied"}]
  BY DEF Init
<1>6. delivered \in [Texts -> Nat]
  BY DEF Init
<1>7. TypeOK
  BY <1>1, <1>2, <1>3, <1>4, <1>5, <1>6 DEF TypeOK
<1> QED BY <1>7 DEF Init, IInv, Released, Waiting

LEMMA InvStep == IInv /\ [Next]_vars => IInv'
<1> SUFFICES ASSUME IInv, [Next]_vars PROVE IInv'
  OBVIOUS
<1>1. CASE End \/ Close \/ \E c \in Controls : Receive(c)
  BY <1>1, LineType, LineReleases DEF IInv
<1>2. CASE Continue \/ \E t \in Callers : Call(t) \/ Abandon(t)
  BY <1>2, CallerType, CallerReleases DEF IInv
<1>3. ASSUME NEW a \in Approvals, WaitForApproval(a) PROVE IInv'
  <2>1. TypeOK'
    BY <1>3 DEF WaitForApproval, IInv, TypeOK, waits, history
  <2>2. Released'
    BY <1>3 DEF WaitForApproval, IInv, TypeOK, Released, Waiting, waits, history
  <2> QED BY <2>1, <2>2 DEF IInv
<1>4. ASSUME NEW a \in Approvals, AbortApproval(a) PROVE IInv'
  <2>1. TypeOK'
    BY <1>4 DEF AbortApproval, IInv, TypeOK, waits, history
  <2>2. Released'
    BY <1>4 DEF AbortApproval, IInv, TypeOK, Released, Waiting, waits, history
  <2> QED BY <2>1, <2>2 DEF IInv
<1>5. CASE UNCHANGED vars
  BY <1>5 DEF vars, waits, history, IInv, TypeOK, Released, Waiting
<1> QED BY <1>1, <1>2, <1>3, <1>4, <1>5 DEF Next

\* The stream, its callers and its approvals keep their types; nobody's continuation
\* is due while the stream is paused.
THEOREM TypeCorrect == Spec => []TypeOK
<1>1. IInv => TypeOK
  BY DEF IInv
<1> QED BY <1>1, InitInv, InvStep, PTL DEF Spec

\* A stop, the end of the input and close() of control-stream.ts release every executor
\* and deny every approval, and nothing waits for the stream afterwards.
THEOREM NobodyIsHeld == Spec => []DeadStreamHoldsNobody
<1>1. IInv => DeadStreamHoldsNobody
  BY DEF IInv, Released, DeadStreamHoldsNobody
<1> QED BY <1>1, InitInv, InvStep, PTL DEF Spec

-----------------------------------------------------------------------------
(* Occurrences of a text.                                                  *)

Positions(x, s) == {k \in DOMAIN s : s[k] = x}

LEMMA OccurrencesType ==
    ASSUME NEW S, NEW s \in Seq(S), NEW x
    PROVE  /\ IsFiniteSet(Positions(x, s))
           /\ Occurrences(x, s) = Cardinality(Positions(x, s))
           /\ Occurrences(x, s) \in Nat
<1>1. DOMAIN s = 1..Len(s) /\ Len(s) \in Nat
  BY LenProperties
<1>2. IsFiniteSet(Positions(x, s))
  <2>1. IsFiniteSet(DOMAIN s)
    BY <1>1, FS_Interval
  <2> QED BY <2>1, FS_Subset DEF Positions
<1> QED BY <1>2, FS_CardinalityType DEF Occurrences, Positions

LEMMA OccurrencesOfNone ==
    ASSUME NEW S, NEW s \in Seq(S), NEW x, x \notin ToSet(s)
    PROVE  Occurrences(x, s) = 0
<1>1. Positions(x, s) = {}
  BY DEF ToSet, Positions
<1> QED BY <1>1, OccurrencesType, FS_EmptySet

LEMMA OccurrencesAppend ==
    ASSUME NEW S, NEW s \in Seq(S), NEW e \in S, NEW x
    PROVE  Occurrences(x, Append(s, e)) = Occurrences(x, s) + (IF e = x THEN 1 ELSE 0)
<1> DEFINE n == Len(s) + 1
<1>1. /\ DOMAIN Append(s, e) = DOMAIN s \union {n} /\ n \notin DOMAIN s
      /\ \A k \in DOMAIN s : Append(s, e)[k] = s[k]
      /\ Append(s, e)[n] = e
  OBVIOUS
<1>2. Positions(x, Append(s, e)) = IF e = x THEN Positions(x, s) \union {n} ELSE Positions(x, s)
  BY <1>1 DEF Positions
<1>3. n \notin Positions(x, s)
  BY <1>1 DEF Positions
<1>4. Append(s, e) \in Seq(S)
  OBVIOUS
<1>5. /\ Occurrences(x, s) = Cardinality(Positions(x, s)) /\ IsFiniteSet(Positions(x, s))
      /\ Occurrences(x, s) \in Nat
      /\ Occurrences(x, Append(s, e)) = Cardinality(Positions(x, Append(s, e)))
  BY <1>4, OccurrencesType
<1>6. Cardinality(Positions(x, s) \union {n}) = Cardinality(Positions(x, s)) + 1
  BY <1>3, <1>5, FS_AddElement
<1> QED BY <1>2, <1>5, <1>6

LEMMA RemoveAtProperties ==
    ASSUME NEW S, NEW s \in Seq(S), NEW i \in 1..Len(s)
    PROVE  /\ RemoveAt(s, i) \in Seq(S)
           /\ Len(RemoveAt(s, i)) = Len(s) - 1
           /\ \A k \in 1..(Len(s) - 1) : RemoveAt(s, i)[k] = IF k < i THEN s[k] ELSE s[k + 1]
<1> DEFINE a == SubSeq(s, 1, i - 1)
           b == SubSeq(s, i + 1, Len(s))
<1>1. Len(s) \in Nat /\ i \in Int /\ \A k \in 1..Len(s) : s[k] \in S
  OBVIOUS
<1>2. /\ a \in Seq(S) /\ Len(a) = i - 1
      /\ \A k \in 1..(i - 1) : a[k] = s[k]
  BY <1>1, SubSeqProperties
<1>3. /\ b \in Seq(S) /\ Len(b) = Len(s) - i
      /\ \A k \in 1..(Len(s) - i) : b[k] = s[k + i]
  BY <1>1, SubSeqProperties
<1> HIDE DEF a, b
<1>4. /\ a \o b \in Seq(S) /\ Len(a \o b) = Len(s) - 1
      /\ \A k \in 1..(Len(s) - 1) : (a \o b)[k] = IF k < i THEN a[k] ELSE b[k - (i - 1)]
  <2>1. /\ a \o b \in Seq(S) /\ Len(a \o b) = Len(a) + Len(b)
        /\ \A k \in 1 .. Len(a) + Len(b) : (a \o b)[k] = IF k <= Len(a) THEN a[k] ELSE b[k - Len(a)]
    BY <1>2, <1>3, ConcatProperties
  <2>2. Len(a) + Len(b) = Len(s) - 1 /\ Len(a) = i - 1
    BY <1>1, <1>2, <1>3
  <2> QED BY <1>1, <2>1, <2>2
<1>5. ASSUME NEW k \in 1..(Len(s) - 1)
      PROVE  (a \o b)[k] = IF k < i THEN s[k] ELSE s[k + 1]
  <2>1. CASE k < i
    BY <1>1, <1>2, <1>4, <2>1
  <2>2. CASE ~(k < i)
    <3>1. k - (i - 1) \in 1..(Len(s) - i) /\ k - (i - 1) + i = k + 1
      BY <1>1, <2>2
    <3> QED BY <1>3, <1>4, <2>2, <3>1
  <2> QED BY <2>1, <2>2
<1> QED BY <1>4, <1>5 DEF RemoveAt, a, b

\* A removal takes out one occurrence of the text if there is one, and of no other.
LEMMA OccurrencesRemoved ==
    ASSUME NEW S, NEW s \in Seq(S), NEW e, NEW x
    PROVE  /\ Occurrences(x, RemoveFirst(s, e)) <= Occurrences(x, s)
           /\ x # e => Occurrences(x, RemoveFirst(s, e)) = Occurrences(x, s)
           /\ Occurrences(x, s) <= Occurrences(x, RemoveFirst(s, e)) + 1
<1> DEFINE I == {i \in 1..Len(s) : s[i] = e}
<1>1. CASE I = {}
  <2>1. RemoveFirst(s, e) = s
    BY <1>1 DEF RemoveFirst
  <2> QED BY <2>1, OccurrencesType
<1>2. CASE I # {}
  <2>1. I \in SUBSET Nat
    OBVIOUS
  <2>2. PICK i \in 1..Len(s) : s[i] = e /\ RemoveFirst(s, e) = RemoveAt(s, i)
    <3>1. Min(I) \in I
      BY <1>2, <2>1, LeastElement
    <3>2. RemoveFirst(s, e) = RemoveAt(s, Min(I))
      BY <1>2 DEF RemoveFirst, SelectInSeq
    <3> QED BY <3>1, <3>2
  <2> DEFINE r == RemoveAt(s, i)
             P == Positions(x, r)
             Q == Positions(x, s) \ {i}
             f == [k \in P |-> IF k < i THEN k ELSE k + 1]
  <2>3. /\ r \in Seq(S) /\ Len(r) = Len(s) - 1
        /\ \A k \in 1..(Len(s) - 1) : r[k] = IF k < i THEN s[k] ELSE s[k + 1]
    BY RemoveAtProperties
  <2> HIDE DEF r
  <2>4. DOMAIN r = 1..(Len(s) - 1) /\ DOMAIN s = 1..Len(s) /\ Len(s) \in Nat
    BY <2>3
  <2>5. f \in Bijection(P, Q)
    <3>1. \A k \in P : k \in Int /\ f[k] \in Q
      BY <2>3, <2>4 DEF Positions
    <3>2. \A j, k \in P : f[j] = f[k] => j = k
      BY <2>4 DEF Positions
    <3>3. ASSUME NEW q \in Q
          PROVE  \E k \in P : f[k] = q
      <4>1. q \in 1..Len(s) /\ q # i /\ s[q] = x
        BY <2>4 DEF Positions
      <4>2. CASE q < i
        <5>1. q \in P
          BY <2>3, <2>4, <4>1, <4>2 DEF Positions
        <5> QED BY <4>2, <5>1
      <4>3. CASE q > i
        <5>1. q - 1 \in P /\ ~(q - 1 < i) /\ (q - 1) + 1 = q
          BY <2>3, <2>4, <4>1, <4>3 DEF Positions
        <5> QED BY <5>1
      <4> QED BY <4>1, <4>2, <4>3
    <3>4. f \in Injection(P, Q)
      BY <3>1, <3>2 DEF Injection, IsInjective
    <3>5. f \in Surjection(P, Q)
      BY <3>1, <3>3 DEF Surjection
    <3> QED BY <3>4, <3>5 DEF Bijection
  <2>6. Cardinality(P) = Cardinality(Q)
    <3>1. IsFiniteSet(P)
      BY <2>3, OccurrencesType
    <3> QED BY <2>5, <3>1, FS_Bijection DEF ExistsBijection
  <2>7. Cardinality(Q) = IF i \in Positions(x, s) THEN Cardinality(Positions(x, s)) - 1
                                                  ELSE Cardinality(Positions(x, s))
    BY OccurrencesType, FS_RemoveElement
  <2>8. i \in Positions(x, s) => x = e
    BY <2>2 DEF Positions
  <2>9. Occurrences(x, r) = Cardinality(P) /\ Occurrences(x, s) = Cardinality(Positions(x, s))
        /\ Occurrences(x, s) \in Nat
    BY <2>3, OccurrencesType
  <2> QED BY <2>2, <2>6, <2>7, <2>8, <2>9 DEF r
<1> QED BY <1>1, <1>2

-----------------------------------------------------------------------------
(* Steering is kept once.  What was handed over or is queued is counted    *)
(* against what was accepted, text by text.  That needs that a control is  *)
(* applied once, that one wait at a time listens, and that whoever goes on *)
(* after a pause was resumed once.                                         *)

\* Whose continuation is due is neither waiting nor due a second time.
DueIn(s) ==
    /\ \A k \in DOMAIN s : caller[s[k]] = "resuming"
    /\ \A j, k \in DOMAIN s : s[j] = s[k] => j = k

CallersAreDue == DueIn(ready) /\ DueIn(resumeWaiters) /\ (ready = << >> \/ resumeWaiters = << >>)

OneListens ==
    /\ \A t \in Callers : caller[t] = "waiting" => t \in Waiters \ gone
    /\ \A t, u \in Waiters \ gone : caller[t] # "idle" /\ caller[u] # "idle" => t = u

\* The stream remembers what a device may repeat.
ControlsAreOnce ==
    /\ processed = recent
    /\ IsFiniteSet(accepted)
    /\ active \subseteq InitialSteering \union accepted

With(x, C) == {c \in C : Text[c] = x}
Kept(x) == delivered[x] + Occurrences(x, queue)

SteeringIsCounted ==
    \A x \in Texts :
      /\ Kept(x) <= Cardinality(With(x, AcceptedSteers))
      /\ ~ended /\ x \notin lost \union Displaced =>
           Cardinality(With(x, active \intersect AcceptedSteers)) <= Kept(x)

\* The inductive invariant.
SteeringInvariant == CallersAreDue /\ OneListens /\ ControlsAreOnce /\ SteeringIsCounted

\* Waking waiters and callers leaves nobody due twice.
LEMMA WakingKeepsCallers ==
    ASSUME TypeOK, CallersAreDue, OneListens, UNCHANGED gone,
           ResolveResumeWaiters \/ UNCHANGED <<ready, resumeWaiters>>,
           UNCHANGED caller \/ caller' = [t \in Callers |-> IF t \in Waiting THEN "idle" ELSE caller[t]]
    PROVE  CallersAreDue' /\ OneListens'
<1>1. \A t \in Callers : /\ caller[t] = "resuming" => caller'[t] = "resuming"
                         /\ caller'[t] = "waiting" => caller[t] = "waiting"
                         /\ caller'[t] # "idle" => caller[t] # "idle"
  BY DEF Waiting, TypeOK
<1>2. \/ ready' = ready /\ resumeWaiters' = resumeWaiters
      \/ ready' = ready /\ resumeWaiters' = << >>
      \/ ready' = resumeWaiters /\ resumeWaiters' = << >>
  <2>1. ready \o << >> = ready /\ << >> \o resumeWaiters = resumeWaiters
    BY ConcatEmptySeq DEF TypeOK
  <2> QED BY <2>1 DEF ResolveResumeWaiters, CallersAreDue
<1>3. /\ \A k \in DOMAIN ready : ready[k] \in Callers
      /\ \A k \in DOMAIN resumeWaiters : resumeWaiters[k] \in Callers
  BY DEF TypeOK
<1>4. DueIn(ready)' /\ DueIn(resumeWaiters)'
  BY <1>1, <1>2, <1>3 DEF CallersAreDue, DueIn
<1>5. OneListens'
  BY <1>1 DEF OneListens, Callers
<1> QED BY <1>2, <1>4, <1>5 DEF CallersAreDue

LEMMA CallersStep ==
    ASSUME IInv, CallersAreDue, OneListens, Next
    PROVE  CallersAreDue' /\ OneListens'
<1>1. ASSUME NEW c \in Controls, Receive(c)
      PROVE  CallersAreDue' /\ OneListens'
  <2>1. UNCHANGED gone
    BY <1>1 DEF Receive, Apply, Pause, Resume, Stop, Steer, RemoveSteering, ResolveApproval, waits
  <2>2. ResolveResumeWaiters \/ UNCHANGED <<ready, resumeWaiters>>
    BY <1>1 DEF Receive, Apply, Pause, Resume, Stop, Steer, RemoveSteering, ResolveApproval, waits
  <2>3. UNCHANGED caller \/ caller' = [t \in Callers |-> IF t \in Waiting THEN "idle" ELSE caller[t]]
    BY <1>1 DEF Receive, Apply, Pause, Resume, Stop, Steer, RemoveSteering, ResolveApproval, waits,
         ResolveSteeringWaiters
  <2> QED BY <2>1, <2>2, <2>3, WakingKeepsCallers DEF IInv
<1>2. CASE End \/ Close
  BY <1>2, WakingKeepsCallers DEF End, Close, ResolveSteeringWaiters, IInv
<1>3. CASE Continue
  <2> DEFINE t == Head(ready)
  <2>1. /\ t \in Callers /\ ready' \in Seq(Callers) /\ 1 \in DOMAIN ready /\ t = ready[1]
        /\ \A k \in DOMAIN ready' : k + 1 \in DOMAIN ready /\ ready'[k] = ready[k + 1] /\ k + 1 # 1 /\ k \in Int
        /\ ready # << >> /\ UNCHANGED <<gone, resumeWaiters>>
    BY <1>3 DEF Continue, IInv, TypeOK
  <2>2. resumeWaiters = << >>
    BY <2>1 DEF CallersAreDue
  <2>3. /\ \A u \in Callers : u # t => caller'[u] = caller[u]
        /\ caller'[t] \in {"idle", "waiting"}
        /\ caller'[t] = "waiting" => t \in Waiters \ gone
    BY <1>3, <2>1 DEF Continue, Callers, IInv, TypeOK
  <2>4. caller[t] = "resuming"
    BY <2>1 DEF CallersAreDue, DueIn
  <2>5. DueIn(ready)'
    <3>1. \A k \in DOMAIN ready' : ready'[k] # t /\ ready'[k] \in Callers
      BY <2>1 DEF CallersAreDue, DueIn
    <3>2. \A j, k \in DOMAIN ready' : ready'[j] = ready'[k] => j = k
      <4>1. SUFFICES ASSUME NEW j \in DOMAIN ready', NEW k \in DOMAIN ready', ready'[j] = ready'[k]
                     PROVE  j = k
        OBVIOUS
      <4>2. j + 1 = k + 1 /\ j \in Int /\ k \in Int
        BY <2>1, <4>1 DEF CallersAreDue, DueIn
      <4> QED BY <4>2
    <3> QED BY <2>1, <2>3, <3>1, <3>2 DEF CallersAreDue, DueIn
  <2>6. OneListens'
    BY <2>1, <2>3, <2>4 DEF OneListens, Callers
  <2> QED BY <2>1, <2>2, <2>5, <2>6 DEF CallersAreDue, DueIn
<1>4. ASSUME NEW t \in Callers, Call(t)
      PROVE  CallersAreDue' /\ OneListens'
  <2>1. /\ caller[t] = "idle" /\ caller' = [caller EXCEPT ![t] = "resuming"] /\ gone' = gone \ {t}
        /\ t \in Waiters => \A u \in Waiters \ gone : caller[u] = "idle"
    BY <1>4 DEF Call, MayCall
  <2>2. /\ paused => ready = << >>
        /\ ~paused => resumeWaiters = << >>
    BY DEF IInv, TypeOK, Released
  <2>3. ASSUME NEW s \in Seq(Callers), DueIn(s)
        PROVE  /\ \A k \in DOMAIN s : caller'[s[k]] = "resuming"
               /\ \A k \in DOMAIN Append(s, t) : caller'[Append(s, t)[k]] = "resuming"
               /\ \A j, k \in DOMAIN Append(s, t) : Append(s, t)[j] = Append(s, t)[k] => j = k
    <3>1. /\ DOMAIN Append(s, t) = DOMAIN s \union {Len(s) + 1}
          /\ \A k \in DOMAIN s : Append(s, t)[k] = s[k]
          /\ Append(s, t)[Len(s) + 1] = t
      OBVIOUS
    <3>2. \A k \in DOMAIN s : s[k] # t /\ s[k] \in Callers
      BY <2>1, <2>3 DEF DueIn
    <3>3. \A k \in DOMAIN s : caller'[s[k]] = "resuming"
      BY <2>1, <2>3, <3>2 DEF DueIn, IInv, TypeOK
    <3>4. caller'[t] = "resuming"
      BY <2>1 DEF IInv, TypeOK
    <3> QED BY <2>3, <3>1, <3>2, <3>3, <3>4 DEF DueIn
  <2>4. \/ paused /\ resumeWaiters' = Append(resumeWaiters, t) /\ ready' = ready
        \/ ~paused /\ ready' = Append(ready, t) /\ resumeWaiters' = resumeWaiters
    BY <1>4 DEF Call
  <2>5. CallersAreDue'
    <3>1. ready \in Seq(Callers) /\ resumeWaiters \in Seq(Callers)
      BY DEF IInv, TypeOK
    <3>2. CASE paused /\ resumeWaiters' = Append(resumeWaiters, t) /\ ready' = ready
      <4>1. DueIn(resumeWaiters)'
        BY <2>3, <3>1, <3>2 DEF CallersAreDue, DueIn
      <4>2. ready' = << >> /\ DueIn(ready)'
        BY <2>2, <3>2 DEF DueIn
      <4> QED BY <4>1, <4>2 DEF CallersAreDue
    <3>3. CASE ~paused /\ ready' = Append(ready, t) /\ resumeWaiters' = resumeWaiters
      <4>1. DueIn(ready)'
        BY <2>3, <3>1, <3>3 DEF CallersAreDue, DueIn
      <4>2. resumeWaiters' = << >> /\ DueIn(resumeWaiters)'
        BY <2>2, <3>3 DEF DueIn
      <4> QED BY <4>1, <4>2 DEF CallersAreDue
    <3> QED BY <2>4, <3>2, <3>3
  <2>6. OneListens'
    BY <2>1 DEF OneListens, Callers, IInv, TypeOK
  <2> QED BY <2>5, <2>6
<1>5. ASSUME NEW t \in Callers, Abandon(t)
      PROVE  CallersAreDue' /\ OneListens'
  <2>1. /\ gone' = gone \union {t} /\ UNCHANGED <<ready, resumeWaiters>>
        /\ \A u \in Callers : /\ caller[u] = "resuming" => caller'[u] = "resuming"
                              /\ caller'[u] = "waiting" => caller[u] = "waiting" /\ u # t
                              /\ caller'[u] # "idle" => caller[u] # "idle"
    BY <1>5 DEF Abandon, IInv, TypeOK
  <2>2. /\ \A k \in DOMAIN ready : ready[k] \in Callers
        /\ \A k \in DOMAIN resumeWaiters : resumeWaiters[k] \in Callers
    BY DEF IInv, TypeOK
  <2>3. CallersAreDue'
    BY <2>1, <2>2 DEF CallersAreDue, DueIn
  <2>4. OneListens'
    BY <2>1 DEF OneListens, Callers
  <2> QED BY <2>3, <2>4
<1>6. ASSUME NEW a \in Approvals, WaitForApproval(a) \/ AbortApproval(a)
      PROVE  CallersAreDue' /\ OneListens'
  BY <1>6 DEF WaitForApproval, AbortApproval, waits, CallersAreDue, DueIn, OneListens
<1> QED BY <1>1, <1>2, <1>3, <1>4, <1>5, <1>6 DEF Next

\* Whoever listens alone gets every instruction once.
LEMMA HandedOver ==
    ASSUME TypeOK, OneListens, NEW s \in Seq(Texts), ResolveSteeringWaiters(s), NEW x \in Texts
    PROVE  delivered'[x] = delivered[x] + (IF Waiting = {} THEN 0 ELSE Occurrences(x, s))
<1>1. delivered'[x] = delivered[x] + Occurrences(x, s) * Cardinality(Waiting)
  BY DEF ResolveSteeringWaiters, Deliver
<1>2. Occurrences(x, s) \in Nat /\ delivered[x] \in Nat
  BY OccurrencesType DEF TypeOK
<1>3. CASE Waiting = {}
  <2>1. Cardinality(Waiting) = 0
    BY <1>3, FS_EmptySet
  <2> QED BY <1>1, <1>2, <1>3, <2>1
<1>4. CASE Waiting # {}
  <2>1. PICK t \in Waiting : TRUE
    BY <1>4
  <2>2. Waiting = {t}
    BY <2>1 DEF Waiting, OneListens
  <2>3. Cardinality(Waiting) = 1
    BY <2>2, FS_Singleton
  <2> QED BY <1>1, <1>2, <1>4, <2>3
<1> QED BY <1>3, <1>4

LEMMA NothingHandedOver ==
    ASSUME TypeOK, OneListens, ResolveSteeringWaiters(<< >>), NEW x \in Texts
    PROVE  delivered'[x] = delivered[x]
<1>1. << >> \in Seq(Texts) /\ x \notin ToSet(<< >>)
  BY DEF ToSet
<1>2. Occurrences(x, << >>) = 0
  BY <1>1, OccurrencesOfNone
<1>3. delivered'[x] = delivered[x] + (IF Waiting = {} THEN 0 ELSE Occurrences(x, << >>))
  BY <1>1, HandedOver
<1>4. delivered[x] \in Nat
  BY DEF TypeOK
<1> QED BY <1>2, <1>3, <1>4

\* A control adds what it says, and removes at most one instruction.
LEMMA ApplyKept ==
    ASSUME TypeOK, OneListens, NEW c \in Controls, Apply(c), NEW x \in Texts
    PROVE  /\ Kind[c] = "steer" => Kept(x)' = Kept(x) + (IF Text[c] = x THEN 1 ELSE 0)
           /\ Kind[c] # "steer" => Kept(x)' <= Kept(x)
           /\ Kept(x)' < Kept(x) =>
                Kind[c] = "remove" /\ Text[Target[c]] = x /\ Target[c] \in active /\ Kept(x) <= Kept(x)' + 1
<1>1. /\ delivered[x] \in Nat /\ Occurrences(x, queue) \in Nat /\ queue \in Seq(Texts)
      /\ << >> \in Seq(Texts) /\ Occurrences(x, << >>) = 0 /\ Kept(x) \in Nat
  <2>1. << >> \in Seq(Texts) /\ x \notin ToSet(<< >>)
    BY DEF ToSet
  <2>2. delivered[x] \in Nat /\ queue \in Seq(Texts)
    BY DEF TypeOK
  <2>3. Occurrences(x, queue) \in Nat
    BY <2>2, OccurrencesType
  <2>4. Occurrences(x, << >>) = 0
    BY <2>1, OccurrencesOfNone
  <2> QED BY <2>1, <2>2, <2>3, <2>4 DEF Kept
<1>2. CASE Pause(c) \/ ResolveApproval(c)
  <2>1. Kept(x)' = Kept(x) /\ Kind[c] # "steer"
    BY <1>2 DEF Pause, ResolveApproval, Kept
  <2> QED BY <1>1, <2>1
<1>3. CASE Resume(c)
  <2>1. Kept(x)' = Kept(x) /\ Kind[c] # "steer"
    <3>1. CASE Waiting # {} /\ queue # << >>
      BY <1>1, <1>3, <3>1, HandedOver DEF Resume, Kept
    <3>2. CASE ~(Waiting # {} /\ queue # << >>)
      BY <1>3, <3>2 DEF Resume, Kept
    <3> QED BY <1>3, <3>1, <3>2 DEF Resume
  <2> QED BY <1>1, <2>1
<1>4. CASE Stop(c)
  <2>1. Kept(x)' = Kept(x) /\ Kind[c] # "steer"
    BY <1>4, NothingHandedOver DEF Stop, Kept
  <2> QED BY <1>1, <2>1
<1>5. CASE Steer(c)
  <2> DEFINE longer == Append(queue, Text[c])
  <2>1. Text[c] \in Texts /\ Kind[c] = "steer"
    BY <1>5 DEF Steer, Steers, Texts
  <2>2. /\ Occurrences(x, longer) = Occurrences(x, queue) + (IF Text[c] = x THEN 1 ELSE 0)
        /\ longer \in Seq(Texts)
    BY <1>1, <2>1, OccurrencesAppend
  <2> HIDE DEF longer
  <2>3. Kept(x)' = Kept(x) + (IF Text[c] = x THEN 1 ELSE 0)
    <3>1. CASE ~paused /\ Waiting # {}
      <4>1. ResolveSteeringWaiters(longer) /\ queue' = << >>
        BY <1>5, <3>1 DEF Steer, longer
      <4>2. delivered'[x] = delivered[x] + Occurrences(x, longer)
        BY <2>2, <3>1, <4>1, HandedOver
      <4> QED BY <1>1, <2>2, <4>1, <4>2 DEF Kept
    <3>2. CASE ~(~paused /\ Waiting # {})
      <4>1. queue' = longer /\ UNCHANGED delivered
        BY <1>5, <3>2 DEF Steer, longer
      <4> QED BY <1>1, <2>2, <4>1 DEF Kept
    <3> QED BY <3>1, <3>2
  <2> QED BY <1>1, <2>1, <2>3
<1>6. CASE RemoveSteering(c)
  <2> DEFINE e == Text[Target[c]]
  <2>1. queue' = RemoveFirst(queue, e) /\ UNCHANGED delivered /\ Kind[c] = "remove" /\ Target[c] \in active
    BY <1>6 DEF RemoveSteering
  <2>2. /\ Occurrences(x, queue') <= Occurrences(x, queue)
        /\ x # e => Occurrences(x, queue') = Occurrences(x, queue)
        /\ Occurrences(x, queue) <= Occurrences(x, queue') + 1
        /\ Occurrences(x, queue') \in Nat
    <3>1. RemoveFirst(queue, e) \in Seq(Texts)
      BY <1>1, RemoveFirstType
    <3> QED BY <1>1, <2>1, <3>1, OccurrencesRemoved, OccurrencesType
  <2> HIDE DEF e
  <2>3. Kept(x) = delivered[x] + Occurrences(x, queue) /\ Kept(x)' = delivered[x] + Occurrences(x, queue')
    BY <2>1 DEF Kept
  <2>4. Kept(x)' <= Kept(x) /\ (x # e => Kept(x)' = Kept(x)) /\ Kept(x) <= Kept(x)' + 1 /\ Kept(x)' \in Nat
    BY <1>1, <2>2, <2>3
  <2> QED BY <1>1, <2>1, <2>4 DEF e
<1> QED BY <1>2, <1>3, <1>4, <1>5, <1>6 DEF Apply

\* A line is counted once: a control that was accepted is remembered as long as its
\* device may repeat it.
LEMMA ReceiveCounts ==
    ASSUME IInv, SteeringInvariant, NEW c \in Controls, Receive(c)
    PROVE  ControlsAreOnce' /\ SteeringIsCounted'
<1>1. c \notin accepted /\ accepted' = accepted \union {c} /\ ended' = ended /\ lost' = lost
  BY DEF Receive, MaySend, SteeringInvariant, ControlsAreOnce
<1>2. IsFiniteSet(accepted) /\ IsFiniteSet(accepted')
  BY <1>1, FS_AddElement DEF SteeringInvariant, ControlsAreOnce
<1>3. processed' = recent'
  BY DEF Receive, Remember, SteeringInvariant, ControlsAreOnce
<1>4. active' \subseteq active \union {c} /\ (Kind[c] # "steer" => active' \subseteq active)
  BY DEF Receive, Apply, Pause, Resume, Stop, Steer, RemoveSteering, ResolveApproval
<1>5. ControlsAreOnce'
  BY <1>1, <1>2, <1>3, <1>4 DEF SteeringInvariant, ControlsAreOnce
<1>6. Displaced \subseteq Displaced'
  BY <1>1 DEF Displaced
<1>7. ASSUME NEW x \in Texts
      PROVE  /\ Kept(x)' <= Cardinality(With(x, AcceptedSteers)')
             /\ ~ended' /\ x \notin lost' \union Displaced' =>
                  Cardinality(With(x, active \intersect AcceptedSteers)') <= Kept(x)'
  <2> DEFINE A == With(x, AcceptedSteers)
             B == With(x, active \intersect AcceptedSteers)
  <2>1. IsFiniteSet(A) /\ IsFiniteSet(A') /\ IsFiniteSet(B) /\ IsFiniteSet(B')
    BY <1>2, FS_Subset DEF With, AcceptedSteers
  <2>2. /\ Cardinality(A) \in Nat /\ Cardinality(A') \in Nat
        /\ Cardinality(B) \in Nat /\ Cardinality(B') \in Nat
    BY <2>1, FS_CardinalityType
  <2>3. /\ Kept(x) <= Cardinality(A)
        /\ ~ended /\ x \notin lost \union Displaced => Cardinality(B) <= Kept(x)
    BY DEF SteeringInvariant, SteeringIsCounted
  <2>4. Kept(x) \in Nat /\ Kept(x)' \in Nat
    <3>1. TypeOK /\ TypeOK'
      BY LineType DEF IInv
    <3> QED BY <3>1, OccurrencesType DEF Kept, TypeOK
  <2>5. /\ Kind[c] = "steer" => Kept(x)' = Kept(x) + (IF Text[c] = x THEN 1 ELSE 0)
        /\ Kind[c] # "steer" => Kept(x)' <= Kept(x)
        /\ Kept(x)' < Kept(x) =>
             Kind[c] = "remove" /\ Text[Target[c]] = x /\ Target[c] \in active /\ Kept(x) <= Kept(x)' + 1
    BY ApplyKept DEF Receive, IInv, SteeringInvariant
  <2>6. CASE Kind[c] = "steer"
    <3>1. c \in Steers /\ active' = active \union {c}
      BY <2>6 DEF Receive, Apply, Pause, Resume, Stop, Steer, RemoveSteering, ResolveApproval, Steers
    <3>2. /\ A' = IF Text[c] = x THEN A \union {c} ELSE A
          /\ B' = IF Text[c] = x THEN B \union {c} ELSE B
          /\ c \notin A /\ c \notin B
      BY <1>1, <3>1 DEF With, AcceptedSteers
    <3>3. Cardinality(A \union {c}) = Cardinality(A) + 1 /\ Cardinality(B \union {c}) = Cardinality(B) + 1
      BY <2>1, <3>2, FS_AddElement
    <3> HIDE DEF A, B
    <3>4. Cardinality(A') = Cardinality(A) + (IF Text[c] = x THEN 1 ELSE 0)
      BY <2>2, <3>2, <3>3
    <3>5. Cardinality(B') = Cardinality(B) + (IF Text[c] = x THEN 1 ELSE 0)
      BY <2>2, <3>2, <3>3
    <3> QED BY <1>1, <1>6, <2>2, <2>3, <2>4, <2>5, <2>6, <3>4, <3>5 DEF A, B
  <2>7. CASE Kind[c] # "steer"
    <3>1. A' = A /\ B' \subseteq B
      BY <1>1, <1>4, <2>7 DEF With, AcceptedSteers, Steers
    <3>2. Cardinality(B') <= Cardinality(B)
      BY <2>1, <3>1, FS_Subset
    <3>3. CASE ~(Kept(x)' < Kept(x))
      <4>1. Kept(x)' = Kept(x)
        BY <2>4, <2>5, <2>7, <3>3
      <4> HIDE DEF A, B
      <4> QED BY <1>1, <1>6, <2>2, <2>3, <2>4, <3>1, <3>2, <4>1 DEF A, B
    <3>4. CASE Kept(x)' < Kept(x)
      <4>1. /\ Kind[c] = "remove" /\ Text[Target[c]] = x /\ Target[c] \in active
            /\ Kept(x) <= Kept(x)' + 1
        BY <2>5, <3>4
      <4>2. active' = active \ {Target[c]} /\ Target[c] \in Steers
        BY <4>1, ControlStreamAssumption DEF Receive, Apply, Pause, Resume, Stop, Steer,
             RemoveSteering, ResolveApproval
      <4>3. CASE Target[c] \in InitialSteering
        <5>1. x \in Displaced'
          BY <1>1, <4>1, <4>3 DEF Displaced
        <5> QED BY <2>2, <2>3, <2>4, <3>1, <3>4, <5>1
      <4>4. CASE Target[c] \notin InitialSteering
        <5>1. Target[c] \in B
          BY <4>1, <4>2, <4>4 DEF With, AcceptedSteers, SteeringInvariant, ControlsAreOnce
        <5>2. B' = B \ {Target[c]}
          BY <1>1, <2>7, <4>2 DEF With, AcceptedSteers, Steers
        <5>3. Cardinality(B') = Cardinality(B) - 1
          BY <2>1, <5>1, <5>2, FS_RemoveElement
        <5> HIDE DEF A, B
        <5> QED BY <1>1, <1>6, <2>2, <2>3, <2>4, <3>1, <3>4, <4>1, <5>3 DEF A, B
      <4> QED BY <4>3, <4>4
    <3> QED BY <3>3, <3>4
  <2> QED BY <2>6, <2>7
<1>8. SteeringIsCounted'
  BY <1>7 DEF SteeringIsCounted
<1> QED BY <1>5, <1>8

\* Everything else hands over what is queued, loses it to a caller that had gone, or
\* ends the input.
LEMMA OthersCount ==
    ASSUME IInv, TypeOK', SteeringInvariant, UNCHANGED <<active, accepted, processed, recent>>,
           ended => ended', lost \subseteq lost',
           \A x \in Texts :
             /\ delivered'[x] + Occurrences(x, queue') <= delivered[x] + Occurrences(x, queue)
             /\ ~ended' /\ x \notin lost' =>
                  delivered'[x] + Occurrences(x, queue') = delivered[x] + Occurrences(x, queue)
    PROVE  ControlsAreOnce' /\ SteeringIsCounted'
<1>1. ControlsAreOnce'
  BY DEF SteeringInvariant, ControlsAreOnce
<1>2. Displaced' = Displaced
  BY DEF Displaced
<1>3. ASSUME NEW x \in Texts
      PROVE  /\ Kept(x)' <= Cardinality(With(x, AcceptedSteers)')
             /\ ~ended' /\ x \notin lost' \union Displaced' =>
                  Cardinality(With(x, active \intersect AcceptedSteers)') <= Kept(x)'
  <2> DEFINE A == With(x, AcceptedSteers)
             B == With(x, active \intersect AcceptedSteers)
  <2>1. A' = A /\ B' = B
    BY DEF With, AcceptedSteers
  <2>2. /\ Kept(x) <= Cardinality(A)
        /\ ~ended /\ x \notin lost \union Displaced => Cardinality(B) <= Kept(x)
    BY DEF SteeringInvariant, SteeringIsCounted
  <2>3. Kept(x)' \in Int /\ Kept(x) \in Int /\ Cardinality(A) \in Int
    <3>1. IsFiniteSet(A)
      BY FS_Subset DEF With, AcceptedSteers, SteeringInvariant, ControlsAreOnce
    <3>2. Cardinality(A) \in Nat
      BY <3>1, FS_CardinalityType
    <3>3. delivered[x] \in Nat /\ Occurrences(x, queue) \in Nat
      BY OccurrencesType DEF IInv, TypeOK
    <3>4. delivered'[x] \in Nat /\ Occurrences(x, queue') \in Nat
      BY OccurrencesType DEF TypeOK
    <3> QED BY <3>2, <3>3, <3>4 DEF Kept
  <2>4. Kept(x)' <= Kept(x) /\ (~ended' /\ x \notin lost' => Kept(x)' = Kept(x))
    BY DEF Kept
  <2> HIDE DEF A, B
  <2> QED BY <1>2, <2>4, <2>1, <2>2, <2>3 DEF A, B
<1>4. SteeringIsCounted'
  BY <1>3 DEF SteeringIsCounted
<1> QED BY <1>1, <1>4

LEMMA SteeringStep ==
    ASSUME IInv, SteeringInvariant, Next
    PROVE  SteeringInvariant'
<1>1. CallersAreDue' /\ OneListens'
  BY CallersStep DEF SteeringInvariant
<1>2. TypeOK /\ TypeOK' /\ OneListens
  BY InvStep DEF IInv, SteeringInvariant
<1>3. \A x \in Texts : /\ delivered[x] \in Nat /\ Occurrences(x, queue) \in Nat
                       /\ Occurrences(x, << >>) = 0
  <2>1. SUFFICES ASSUME NEW x \in Texts
                 PROVE  /\ delivered[x] \in Nat /\ Occurrences(x, queue) \in Nat
                        /\ Occurrences(x, << >>) = 0
    OBVIOUS
  <2>2. << >> \in Seq(Texts) /\ x \notin ToSet(<< >>)
    BY DEF ToSet
  <2>3. Occurrences(x, << >>) = 0
    BY <2>2, OccurrencesOfNone
  <2>4. delivered[x] \in Nat /\ queue \in Seq(Texts)
    BY <1>2 DEF TypeOK
  <2>5. Occurrences(x, queue) \in Nat
    BY <2>4, OccurrencesType
  <2> QED BY <2>3, <2>4, <2>5
<1>4. ASSUME NEW c \in Controls, Receive(c)
      PROVE  ControlsAreOnce' /\ SteeringIsCounted'
  BY <1>4, ReceiveCounts
<1>5. CASE End
  <2>1. \A x \in Texts : Kept(x)' <= Kept(x)
    <3>1. ASSUME NEW x \in Texts
          PROVE  delivered'[x] = delivered[x] + (IF Waiting = {} THEN 0 ELSE Occurrences(x, queue))
      BY <1>2, <1>5, HandedOver DEF End, TypeOK
    <3>2. queue' = << >>
      BY <1>5 DEF End
    <3> QED BY <1>3, <3>1, <3>2 DEF Kept
  <2>2. /\ ended' = TRUE /\ lost' = lost
        /\ UNCHANGED <<active, accepted, processed, recent>>
    BY <1>5 DEF End
  <2> QED BY <1>1, <1>2, <2>1, <2>2, OthersCount DEF Kept, SteeringInvariant
<1>6. CASE Close
  <2>1. \A x \in Texts : Kept(x)' = Kept(x)
    BY <1>2, <1>6, NothingHandedOver DEF Close, Kept
  <2>2. \A x \in Texts : Kept(x)' <= Kept(x)
    BY <1>3, <2>1 DEF Kept
  <2>3. /\ ended' = TRUE /\ lost' = lost
        /\ UNCHANGED <<active, accepted, processed, recent>>
    BY <1>6 DEF Close
  <2> QED BY <1>1, <1>2, <2>2, <2>3, OthersCount DEF Kept, SteeringInvariant
<1>7. CASE Continue
  <2> DEFINE t == Head(ready)
             takes == t \in Takers \/ queue # << >>
  <2>1. /\ lost' = lost \union (IF t \in gone THEN ToSet(queue) ELSE {})
        /\ IF takes THEN Deliver(queue, {t} \ gone) /\ queue' = << >>
                    ELSE UNCHANGED <<delivered, queue>>
        /\ UNCHANGED <<active, accepted, processed, recent, ended>>
    BY <1>7 DEF Continue
  <2>2. ASSUME NEW x \in Texts
        PROVE  Kept(x)' <= Kept(x) /\ (x \notin lost' => Kept(x)' = Kept(x))
    <3>1. CASE ~takes
      BY <1>3, <2>1, <3>1 DEF Kept
    <3>2. CASE takes /\ t \notin gone
      <4>1. Cardinality({t} \ gone) = 1
        <5>1. {t} \ gone = {t}
          BY <3>2
        <5> QED BY <5>1, FS_Singleton
      <4>2. delivered'[x] = delivered[x] + Occurrences(x, queue) * Cardinality({t} \ gone) /\ queue' = << >>
        BY <2>1, <3>2 DEF Deliver
      <4> QED BY <1>3, <4>1, <4>2 DEF Kept
    <3>3. CASE takes /\ t \in gone
      <4>1. Cardinality({t} \ gone) = 0
        <5>1. {t} \ gone = {}
          BY <3>3
        <5> QED BY <5>1, FS_EmptySet
      <4>2. delivered'[x] = delivered[x] + Occurrences(x, queue) * Cardinality({t} \ gone) /\ queue' = << >>
        BY <2>1, <3>3 DEF Deliver
      <4>3. x \notin lost' => Occurrences(x, queue) = 0
        BY <1>2, <2>1, <3>3, OccurrencesOfNone DEF TypeOK
      <4> QED BY <1>3, <4>1, <4>2, <4>3 DEF Kept
    <3> QED BY <3>1, <3>2, <3>3
  <2> QED BY <1>1, <1>2, <2>1, <2>2, OthersCount DEF Kept, SteeringInvariant
<1>8. CASE (\E t \in Callers : Call(t) \/ Abandon(t)) \/ \E a \in Approvals : WaitForApproval(a) \/ AbortApproval(a)
  <2>1. UNCHANGED <<active, accepted, processed, recent, ended, lost, delivered, queue>>
    BY <1>8 DEF Call, Abandon, WaitForApproval, AbortApproval, history
  <2>2. \A x \in Texts : Kept(x)' <= Kept(x) /\ Kept(x)' = Kept(x)
    BY <1>3, <2>1 DEF Kept
  <2> QED BY <1>1, <1>2, <2>1, <2>2, OthersCount DEF Kept, SteeringInvariant
<1> QED BY <1>1, <1>4, <1>5, <1>6, <1>7, <1>8 DEF Next, SteeringInvariant

LEMMA InitSteering == Init => SteeringInvariant
<1> SUFFICES ASSUME Init PROVE SteeringInvariant
  OBVIOUS
<1>1. CallersAreDue /\ OneListens
  BY DEF Init, CallersAreDue, DueIn, OneListens, Callers
<1>2. ControlsAreOnce
  BY FS_EmptySet DEF Init, ControlsAreOnce
<1>3. ASSUME NEW x \in Texts
      PROVE  /\ Kept(x) <= Cardinality(With(x, AcceptedSteers))
             /\ Cardinality(With(x, active \intersect AcceptedSteers)) <= Kept(x)
  <2>1. With(x, AcceptedSteers) = {} /\ With(x, active \intersect AcceptedSteers) = {}
    BY DEF Init, With, AcceptedSteers
  <2>2. << >> \in Seq(Texts) /\ x \notin ToSet(<< >>)
    BY DEF ToSet
  <2>3. Occurrences(x, << >>) = 0
    BY <2>2, OccurrencesOfNone
  <2>4. delivered[x] = 0 /\ queue = << >>
    BY DEF Init
  <2>5. Kept(x) = 0
    BY <2>3, <2>4 DEF Kept
  <2> QED BY <2>1, <2>5, FS_EmptySet
<1>4. SteeringIsCounted
  BY <1>3 DEF SteeringIsCounted
<1> QED BY <1>1, <1>2, <1>4 DEF SteeringInvariant

\* Whatever is paused, repeated by a device after a lost acknowledgement, removed or
\* taken by several callers (receive and takeSteeringInstructions of control-stream.ts):
\* an instruction is not handed over more often than it was accepted, and one that is
\* still active is queued or was handed over.
THEOREM SteeringIsNeitherLostNorRepeated == Spec => []SteeringIsKeptOnce
<1>1. SteeringInvariant /\ UNCHANGED vars => SteeringInvariant'
  <2> SUFFICES ASSUME SteeringInvariant, UNCHANGED vars
               PROVE  SteeringInvariant'
    OBVIOUS
  <2>1. CallersAreDue' /\ OneListens' /\ ControlsAreOnce'
    BY DEF vars, waits, history, SteeringInvariant, CallersAreDue, DueIn, OneListens, ControlsAreOnce
  <2>2. /\ UNCHANGED <<delivered, queue, accepted, active, ended, lost>>
        /\ Displaced' = Displaced /\ AcceptedSteers' = AcceptedSteers
    BY DEF vars, history, Displaced, AcceptedSteers
  <2>3. ASSUME NEW x \in Texts
        PROVE  /\ Kept(x)' = Kept(x)
               /\ With(x, AcceptedSteers)' = With(x, AcceptedSteers)
               /\ With(x, active \intersect AcceptedSteers)' = With(x, active \intersect AcceptedSteers)
    BY <2>2 DEF Kept, With, AcceptedSteers
  <2>4. ASSUME NEW x \in Texts
        PROVE  /\ Kept(x)' <= Cardinality(With(x, AcceptedSteers)')
               /\ ~ended' /\ x \notin lost' \union Displaced' =>
                    Cardinality(With(x, active \intersect AcceptedSteers)') <= Kept(x)'
    BY <2>2, <2>3 DEF SteeringInvariant, SteeringIsCounted
  <2>5. SteeringIsCounted'
    BY <2>4 DEF SteeringIsCounted
  <2> QED BY <2>1, <2>5 DEF SteeringInvariant
<1>2. IInv /\ SteeringInvariant /\ [Next]_vars => SteeringInvariant'
  BY <1>1, SteeringStep
<1>3. IInv /\ SteeringInvariant => SteeringIsKeptOnce
  <2>1. SUFFICES ASSUME IInv, SteeringInvariant, NEW x \in Texts
                 PROVE  /\ ~ended /\ (\E c \in active \intersect AcceptedSteers : Text[c] = x)
                             => x \in lost \union Displaced \/ Kept(x) > 0
                        /\ Kept(x) <= Cardinality(With(x, AcceptedSteers))
    BY DEF SteeringIsKeptOnce, Kept, With
  <2>2. Kept(x) <= Cardinality(With(x, AcceptedSteers))
    BY <2>1 DEF SteeringInvariant, SteeringIsCounted
  <2>3. ASSUME ~ended, x \notin lost \union Displaced, NEW c \in active \intersect AcceptedSteers, Text[c] = x
        PROVE  Kept(x) > 0
    <3> DEFINE B == With(x, active \intersect AcceptedSteers)
    <3>1. IsFiniteSet(B) /\ B # {}
      BY <2>1, <2>3, FS_Subset DEF With, AcceptedSteers, SteeringInvariant, ControlsAreOnce
    <3>2. Cardinality(B) \in Nat /\ Cardinality(B) # 0
      BY <3>1, FS_CardinalityType, FS_EmptySet
    <3>3. Cardinality(B) <= Kept(x)
      BY <2>1, <2>3 DEF SteeringInvariant, SteeringIsCounted
    <3>4. Kept(x) \in Nat
      BY <2>1, OccurrencesType DEF Kept, IInv, TypeOK
    <3> HIDE DEF B
    <3> QED BY <3>2, <3>3, <3>4
  <2> QED BY <2>2, <2>3
<1> QED BY InitInv, InitSteering, InvStep, <1>2, <1>3, PTL DEF Spec
================================================================================
