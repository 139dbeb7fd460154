--------------------------- MODULE SignalsProofs ---------------------------
(***************************************************************************)
(* Proofs about Signals, for any threads, signals, actions and bounds.     *)
(***************************************************************************)
EXTENDS Signals, SequenceTheorems, WellFoundedInduction, TLAPS

----------------------------------------------------------------------------
(* The inductive invariant, in parts.                                      *)

Points == {"op", "dec", "body", "exc", "unroll", "blocked", "reset", "perform", "debugging",
           "poll", "report", "handler", "ovf", "gil", "yielded", "nonperiodic", "acting"}
CallPoints == {"debugging", "handler", "acting"}
Frame == [at : Points, from : {"op", "exc"}, arg : Int]

(* A frame that reports a signal knows which.                              *)
Reporting == {"report", "ovf"}
GoodFrame == {f \in Frame : f.at \in Reporting => f.arg \in Sig}

(* Only the innermost frame of a thread is not waiting for a call.         *)
FramesOK ==
    /\ stack \in [Thread -> Seq(GoodFrame)]
    /\ \A t \in Thread : Len(stack[t]) >= 1
    /\ \A t \in Thread : \A i \in 1..Len(stack[t]) - 1 : stack[t][i].at \in CallPoints

SignalsOK ==
    /\ flags \subseteq Sig /\ undelivered \subseteq Sig
    /\ pending_signal \in Sig \cup {NoSig}
    /\ fired \subseteq Nat

(* A dispatcher that reports a signal keeps the interpreter lock, and took *)
(* the parked signal first: the parking place is free for the signal it    *)
(* may have to put back.                                                   *)
ReporterAlone ==
    \A t \in Thread : Top(t).at \in Reporting => holder = t /\ pending_signal = NoSig

IInv == FramesOK /\ SignalsOK /\ ReporterAlone /\ NoSignalLost

----------------------------------------------------------------------------
(* Frames.                                                                 *)

Holds(f, s) == f.at \in Reporting /\ f.arg = s

LEMMA TopFrame ==
    ASSUME FramesOK, NEW t \in Thread
    PROVE  /\ stack[t] \in Seq(GoodFrame) /\ Len(stack[t]) \in Nat \ {0}
           /\ Len(stack[t]) \in 1..Len(stack[t])
           /\ Top(t) \in GoodFrame /\ Top(t) \in Frame
           /\ Len(stack[t]) > 1 => /\ Caller(t) \in GoodFrame /\ Caller(t).at \in CallPoints
                                   /\ Len(stack[t]) - 1 \in 1..Len(stack[t])
  <1>1. stack[t] \in Seq(GoodFrame) /\ Len(stack[t]) >= 1
    BY DEF FramesOK
  <1>2. Len(stack[t]) \in Nat \ {0} /\ Len(stack[t]) \in 1..Len(stack[t])
    BY <1>1, LenProperties
  <1>3. Top(t) \in GoodFrame
    BY <1>1, <1>2, ElementOfSeq DEF Top
  <1>4. Top(t) \in Frame
    BY <1>3 DEF GoodFrame
  <1>5. ASSUME Len(stack[t]) > 1
        PROVE  /\ Caller(t) \in GoodFrame /\ Caller(t).at \in CallPoints
               /\ Len(stack[t]) - 1 \in 1..Len(stack[t])
    <2>1. /\ Len(stack[t]) - 1 \in 1..Len(stack[t])
          /\ Len(stack[t]) - 1 \in 1..Len(stack[t]) - 1
      BY <1>2, <1>5
    <2> QED
      BY <2>1, <1>1, ElementOfSeq DEF Caller, FramesOK
  <1> QED
    BY <1>1, <1>2, <1>3, <1>4, <1>5

(* Thread t now has the frames q, of which f is the innermost.             *)
Now(t, f) ==
    /\ FramesOK'
    /\ stack'[t][Len(stack'[t])] = f
    /\ \A u \in Thread \ {t} : stack'[u] = stack[u]

LEMMA NewStack ==
    ASSUME FramesOK, NEW t \in Thread, NEW q \in Seq(GoodFrame), Len(q) >= 1,
           \A i \in 1..Len(q) - 1 : q[i].at \in CallPoints,
           stack' = [stack EXCEPT ![t] = q]
    PROVE  Now(t, q[Len(q)])
  <1>1. stack \in [Thread -> Seq(GoodFrame)]
    BY DEF FramesOK
  <1>2. stack' \in [Thread -> Seq(GoodFrame)] /\ stack'[t] = q
        /\ \A u \in Thread \ {t} : stack'[u] = stack[u]
    BY <1>1
  <1>3. \A u \in Thread : Len(stack'[u]) >= 1
    BY <1>2 DEF FramesOK
  <1>4. \A u \in Thread : \A i \in 1..Len(stack'[u]) - 1 : stack'[u][i].at \in CallPoints
    BY <1>2 DEF FramesOK
  <1> QED
    BY <1>2, <1>3, <1>4 DEF Now, FramesOK

LEMMA NewTop ==
    ASSUME FramesOK, NEW t \in Thread, NEW f \in GoodFrame,
           stack' = [stack EXCEPT ![t] = [@ EXCEPT ![Len(stack[t])] = f]]
    PROVE  Now(t, f)
  <1> DEFINE n == Len(stack[t])
             q == [stack[t] EXCEPT ![n] = f]
  <1>1. stack[t] \in Seq(GoodFrame) /\ n \in Nat \ {0} /\ n \in 1..n
    BY TopFrame
  <1>2. q \in Seq(GoodFrame) /\ Len(q) = n /\ q[n] = f
        /\ \A j \in 1..n : q[j] = IF j = n THEN f ELSE stack[t][j]
    BY <1>1, ExceptSeq
  <1>3. \A i \in 1..n - 1 : stack[t][i].at \in CallPoints
    BY DEF FramesOK
  <1>4. stack' = [stack EXCEPT ![t] = q]
    BY DEF FramesOK
  <1> HIDE DEF q, n
  <1>5. \A i \in 1..Len(q) - 1 : q[i].at \in CallPoints
    BY <1>1, <1>2, <1>3
  <1>6. Len(q) >= 1 /\ q[Len(q)] = f
    BY <1>1, <1>2
  <1>7. Now(t, q[Len(q)])
    BY <1>2, <1>4, <1>5, <1>6, NewStack
  <1> QED
    BY <1>6, <1>7

LEMMA ToPoint ==
    ASSUME FramesOK, NEW t \in Thread, NEW p \in Points, To(t, p), At(Top(t), p) \in GoodFrame
    PROVE  Now(t, At(Top(t), p))
  <1>1. stack' = [stack EXCEPT ![t] = [@ EXCEPT ![Len(stack[t])] = At(Top(t), p)]]
    BY DEF To, Top
  <1> QED
    BY <1>1, NewTop

LEMMA ToPointArg ==
    ASSUME FramesOK, NEW t \in Thread, NEW p \in Points, NEW a \in Int, ToArg(t, p, a),
           [Top(t) EXCEPT !.at = p, !.arg = a] \in GoodFrame
    PROVE  Now(t, [Top(t) EXCEPT !.at = p, !.arg = a])
  <1>0. stack[t] \in Seq(GoodFrame) /\ Len(stack[t]) \in 1..Len(stack[t])
    BY TopFrame
  <1>1. stack' = [stack EXCEPT ![t] =
                    [@ EXCEPT ![Len(stack[t])] = [Top(t) EXCEPT !.at = p, !.arg = a]]]
    BY <1>0 DEF ToArg, Top, FramesOK
  <1> QED
    BY <1>1, NewTop

LEMMA NewFrameIsGood == NewFrame \in GoodFrame
  BY DEF NewFrame, GoodFrame, Frame, Points, NoSig, Reporting

LEMMA Pushed ==
    ASSUME FramesOK, NEW t \in Thread, NEW f \in GoodFrame, f.at \in CallPoints,
           stack' = [stack EXCEPT ![t] = Append([stack[t] EXCEPT ![Len(stack[t])] = f], NewFrame)]
    PROVE  Now(t, NewFrame)
  <1> DEFINE n == Len(stack[t])
             r == [stack[t] EXCEPT ![n] = f]
             q == Append(r, NewFrame)
  <1>1. stack[t] \in Seq(GoodFrame) /\ n \in Nat \ {0} /\ n \in 1..n
    BY TopFrame
  <1>2. r \in Seq(GoodFrame) /\ Len(r) = n
        /\ \A j \in 1..n : r[j] = IF j = n THEN f ELSE stack[t][j]
    BY <1>1, ExceptSeq
  <1>3. \A i \in 1..n - 1 : stack[t][i].at \in CallPoints
    BY DEF FramesOK
  <1>4. \A i \in 1..n : r[i].at \in CallPoints
    BY <1>1, <1>2, <1>3
  <1>5. stack' = [stack EXCEPT ![t] = q]
    OBVIOUS
  <1> HIDE DEF r, n
  <1>6. q \in Seq(GoodFrame) /\ Len(q) = n + 1 /\ q[n + 1] = NewFrame
        /\ \A i \in 1..n : q[i] = r[i]
    BY <1>1, <1>2, NewFrameIsGood
  <1> HIDE DEF q
  <1>7. Len(q) >= 1 /\ \A i \in 1..Len(q) - 1 : q[i].at \in CallPoints
    BY <1>1, <1>4, <1>6
  <1> QED
    BY <1>5, <1>6, <1>7, NewStack

LEMMA Left ==
    ASSUME FramesOK, NEW t \in Thread, Nested(t), NEW p \in Points, Leave(t, p),
           At(Caller(t), p) \in GoodFrame
    PROVE  Now(t, At(Caller(t), p))
  <1> DEFINE m == Len(stack[t]) - 1
             f == At(Caller(t), p)
             q == [i \in 1..m |-> IF i = m THEN At(stack[t][i], p) ELSE stack[t][i]]
  <1>0. stack[t] \in Seq(GoodFrame) /\ Len(stack[t]) \in Nat /\ Len(stack[t]) > 1
    BY TopFrame DEF Nested
  <1>1. m \in Nat \ {0} /\ m \in 1..m /\ m \in 1..Len(stack[t]) /\ 1..m \subseteq 1..Len(stack[t])
    <2>1. \A n \in Nat : n > 1 => /\ n - 1 \in Nat \ {0} /\ n - 1 \in 1..n - 1
                                  /\ n - 1 \in 1..n /\ 1..n - 1 \subseteq 1..n
      OBVIOUS
    <2> QED
      BY <1>0, <2>1
  <1>2. \A i \in 1..m : stack[t][i] \in GoodFrame
    BY <1>0, <1>1, ElementOfSeq
  <1>3. \A i \in 1..m : q[i] = IF i = m THEN f ELSE stack[t][i]
    BY <1>1 DEF Caller
  <1>4. stack' = [stack EXCEPT ![t] = q]
    BY DEF Leave
  <1>5. \A i \in 1..m : stack[t][i].at \in CallPoints
    BY DEF FramesOK
  <1>6. q \in [1..m -> GoodFrame]
    BY <1>1, <1>2, <1>3
  <1>7. q \in Seq(GoodFrame) /\ Len(q) = m
    BY <1>1, <1>6
  <1> HIDE DEF q, m, f
  <1>8. q[m] = f /\ Len(q) >= 1 /\ \A i \in 1..Len(q) - 1 : q[i].at \in CallPoints
    BY <1>1, <1>3, <1>5, <1>7
  <1> QED
    BY <1>4, <1>7, <1>8, NewStack DEF f

----------------------------------------------------------------------------
(* Who holds a signal.                                                     *)

(* Only innermost frames hold one.                                         *)
LEMMA HeldAtTop ==
    ASSUME FramesOK
    PROVE  NoSignalLost <=>
             \A s \in undelivered : \/ s \in flags \/ s = pending_signal
                                    \/ \E t \in Thread : Holds(Top(t), s)
  <1>1. ASSUME NEW t \in Thread, NEW s, NEW i \in 1..Len(stack[t]),
               stack[t][i].at \in Reporting, stack[t][i].arg = s
        PROVE  Holds(Top(t), s)
    <2>1. i = Len(stack[t])
      <3>1. i \notin 1..Len(stack[t]) - 1
        BY <1>1 DEF FramesOK, CallPoints, Reporting
      <3> QED
        BY <3>1, TopFrame
    <2> QED
      BY <2>1, <1>1 DEF Holds, Top
  <1>2. ASSUME NEW t \in Thread, NEW s, Holds(Top(t), s)
        PROVE  \E i \in 1..Len(stack[t]) :
                  stack[t][i].at \in Reporting /\ stack[t][i].arg = s
    BY <1>2, TopFrame DEF Holds, Top
  <1> QED
    BY <1>1, <1>2 DEF NoSignalLost, Reporting

LEMMA StillHeld ==
    ASSUME FramesOK, FramesOK', NoSignalLost, NEW t \in Thread, NEW f, Now(t, f),
           \A s \in undelivered' :
              \/ s \in flags' \/ s = pending_signal' \/ Holds(f, s)
              \/ /\ s \in undelivered
                 /\ ~Holds(Top(t), s)
                 /\ s \in flags => s \in flags'
                 /\ s = pending_signal => s = pending_signal'
    PROVE  NoSignalLost'
  <1>1. \A s \in undelivered : \/ s \in flags \/ s = pending_signal
                               \/ \E u \in Thread : Holds(Top(u), s)
    BY HeldAtTop
  <1>2. \A u \in Thread \ {t} : Top(u)' = Top(u)
    BY DEF Now, Top
  <1>3. Top(t)' = f
    BY DEF Now, Top
  <1>4. ASSUME NEW s \in undelivered'
        PROVE  \/ s \in flags' \/ s = pending_signal'
               \/ \E u \in Thread : Holds(Top(u)', s)
    <2>1. CASE s \in flags' \/ s = pending_signal' \/ Holds(f, s)
      BY <2>1, <1>3
    <2>2. CASE /\ s \in undelivered
               /\ ~Holds(Top(t), s)
               /\ s \in flags => s \in flags'
               /\ s = pending_signal => s = pending_signal'
      <3>1. CASE \E u \in Thread : Holds(Top(u), s)
        <4>1. PICK u \in Thread : Holds(Top(u), s)
          BY <3>1
        <4>2. u # t
          BY <4>1, <2>2
        <4>3. Holds(Top(u)', s)
          BY <4>1, <4>2, <1>2
        <4> QED
          BY <4>3
      <3>2. CASE s \in flags \/ s = pending_signal
        BY <3>2, <2>2
      <3> QED
        BY <3>1, <3>2, <2>2, <1>1
    <2> QED
      BY <2>1, <2>2
  <1>5. ASSUME NEW u \in Thread, NEW s, Holds(Top(u)', s)
        PROVE  \E i \in 1..Len(stack'[u]) :
                  stack'[u][i].at \in Reporting /\ stack'[u][i].arg = s
    <2>1. Len(stack'[u]) \in 1..Len(stack'[u])
      <3>1. stack'[u] \in Seq(GoodFrame) /\ Len(stack'[u]) >= 1
        BY DEF FramesOK
      <3> QED
        BY <3>1, LenProperties
    <2> QED
      BY <2>1, <1>5 DEF Holds, Top
  <1> QED
    BY <1>4, <1>5 DEF NoSignalLost, Reporting

(* Thread t is left at a point where it reports nothing.                   *)
Settled(t) == \E f : Now(t, f) /\ f.at \notin Reporting

(* A thread that has or takes the lock and reports nothing: nobody does.   *)
LEMMA NobodyReports ==
    ASSUME SignalsAssumption, IInv, NEW t \in Thread, holder \in {t, NoThread},
           Top(t).at \notin Reporting, Settled(t)
    PROVE  FramesOK' /\ ReporterAlone' /\ \A u \in Thread : Top(u)'.at \notin Reporting
  <1>1. \A u \in Thread : Top(u).at \notin Reporting
    BY SignalsAssumption DEF IInv, ReporterAlone, SignalsAssumption
  <1>2. PICK f : Now(t, f) /\ f.at \notin Reporting
    BY DEF Settled
  <1>3. Top(t)' = f /\ \A u \in Thread \ {t} : Top(u)' = Top(u)
    BY <1>2 DEF Now, Top
  <1>4. \A u \in Thread : Top(u)'.at \notin Reporting
    BY <1>1, <1>2, <1>3
  <1> QED
    BY <1>2, <1>4 DEF ReporterAlone, Now

(* A step of a thread that holds no signal, and that touches none.         *)
LEMMA Neutral ==
    ASSUME SignalsAssumption, IInv, NEW t \in Thread, holder \in {t, NoThread},
           Top(t).at \notin Reporting, Settled(t),
           UNCHANGED <<flags, pending_signal, undelivered>>
    PROVE  FramesOK' /\ ReporterAlone' /\ NoSignalLost'
  <1>1. PICK f : Now(t, f)
    BY DEF Settled
  <1> QED
    BY <1>1, NobodyReports, StillHeld DEF IInv, Holds

(* The lowest of some numbers exists.                                      *)
LEMMA LowestExists ==
    ASSUME NEW S \in SUBSET Nat, S # {}
    PROVE  (CHOOSE x \in S : \A y \in S : x <= y) \in S
  <1>1. PICK x \in S : \A y \in S : ~(<<y, x>> \in OpToRel(<, Nat))
    BY WFMin, NatLessThanWellFounded
  <1>2. ASSUME NEW y \in S PROVE x <= y
    <2>1. ASSUME y < x PROVE FALSE
      <3>1. <<y, x>> \in OpToRel(<, Nat)
        BY <2>1 DEF OpToRel
      <3> QED
        BY <3>1, <1>1
    <2> QED
      BY <2>1
  <1> QED
    BY <1>2

----------------------------------------------------------------------------
(* The steps.                                                              *)

(* The points a frame may come to whatever its argument.                   *)
PlainPoints == Points \ Reporting

LEMMA PlainFrame ==
    ASSUME NEW f \in GoodFrame, NEW p \in PlainPoints, NEW a \in Int
    PROVE  /\ At(f, p) \in GoodFrame /\ At(f, p).at = p
           /\ [f EXCEPT !.at = p, !.arg = a] \in GoodFrame
           /\ [f EXCEPT !.at = p, !.arg = a].at = p
  <1>1. f \in Frame /\ p \in Points /\ p \notin Reporting
    BY DEF GoodFrame, PlainPoints
  <1>2. NoSig \in Int
    BY DEF NoSig
  <1>3. At(f, p) \in Frame /\ At(f, p).at = p
    BY <1>1, <1>2 DEF At, Frame
  <1>4. [f EXCEPT !.at = p, !.arg = a] \in Frame /\ [f EXCEPT !.at = p, !.arg = a].at = p
    BY <1>1 DEF Frame
  <1> QED
    BY <1>1, <1>3, <1>4 DEF GoodFrame

(* A step that only moves the innermost frame of t.                        *)
LEMMA Moved ==
    ASSUME FramesOK, NEW t \in Thread, NEW p \in PlainPoints, To(t, p)
    PROVE  Settled(t)
  <1>1. Top(t) \in GoodFrame
    BY TopFrame
  <1>2. At(Top(t), p) \in GoodFrame /\ At(Top(t), p).at = p
    <2>1. 0 \in Int
      OBVIOUS
    <2> QED
      BY <1>1, <2>1, PlainFrame
  <1>3. Now(t, At(Top(t), p))
    BY <1>2, ToPoint DEF PlainPoints
  <1> QED
    BY <1>2, <1>3 DEF Settled, PlainPoints

LEMMA MovedArg ==
    ASSUME FramesOK, NEW t \in Thread, NEW p \in PlainPoints, NEW a \in Int, ToArg(t, p, a)
    PROVE  Settled(t)
  <1> DEFINE f == [Top(t) EXCEPT !.at = p, !.arg = a]
  <1>1. Top(t) \in GoodFrame
    BY TopFrame
  <1>2. f \in GoodFrame /\ f.at = p
    BY <1>1, PlainFrame
  <1>3. Now(t, f)
    BY <1>2, ToPointArg DEF PlainPoints
  <1> QED
    BY <1>2, <1>3 DEF Settled, PlainPoints

LEMMA Dispatched ==
    ASSUME FramesOK, NEW t \in Thread, NEW from \in {"op", "exc"}, Dispatch(t, from)
    PROVE  Settled(t)
  <1> DEFINE f == [at |-> "reset", from |-> from, arg |-> NoSig]
  <1>1. f \in GoodFrame /\ f.at \notin Reporting
    BY DEF GoodFrame, Frame, Points, NoSig, Reporting
  <1>2. stack' = [stack EXCEPT ![t] = [@ EXCEPT ![Len(stack[t])] = f]]
    BY DEF Dispatch
  <1>3. Now(t, f)
    BY <1>1, <1>2, NewTop
  <1> QED
    BY <1>1, <1>3 DEF Settled

LEMMA CalledFrame ==
    ASSUME NEW t, Now(t, NewFrame)
    PROVE  Settled(t)
  BY DEF Settled, NewFrame, Reporting

LEMMA Called ==
    ASSUME FramesOK, NEW t \in Thread, NEW p \in CallPoints, Call(t, p)
    PROVE  Settled(t)
  <1>1. Top(t) \in GoodFrame /\ 0 \in Int
    BY TopFrame
  <1>2. p \in PlainPoints
    BY DEF CallPoints, PlainPoints, Points, Reporting
  <1>3. At(Top(t), p) \in GoodFrame /\ At(Top(t), p).at \in CallPoints
    BY <1>1, <1>2, PlainFrame
  <1>4. stack' = [stack EXCEPT ![t] =
                     Append([stack[t] EXCEPT ![Len(stack[t])] = At(Top(t), p)], NewFrame)]
    BY DEF Call, Top
  <1> QED
    BY <1>3, <1>4, Pushed, CalledFrame

(* The caller goes on.                                                     *)
LEMMA Resumed ==
    ASSUME FramesOK, NEW t \in Thread, Nested(t), NEW p \in PlainPoints, Leave(t, p)
    PROVE  Settled(t)
  <1>1. Caller(t) \in GoodFrame /\ 0 \in Int
    BY TopFrame DEF Nested
  <1>2. At(Caller(t), p) \in GoodFrame /\ At(Caller(t), p).at = p
    BY <1>1, PlainFrame
  <1>3. Now(t, At(Caller(t), p))
    BY <1>2, Left DEF PlainPoints
  <1> QED
    BY <1>2, <1>3 DEF Settled, PlainPoints

LEMMA NeutralStep ==
    ASSUME SignalsAssumption, IInv, NEW t \in Thread, holder \in {t, NoThread}, Settled(t),
           Top(t).at \notin Reporting,
           UNCHANGED <<flags, pending_signal, undelivered, fired>>
    PROVE  IInv'
  <1>1. SignalsOK'
    BY DEF IInv, SignalsOK
  <1> QED
    BY <1>1, Neutral DEF IInv

(* A step that moves no frame.                                             *)
LEMMA FramesStay ==
    ASSUME FramesOK, ReporterAlone, NoSignalLost, UNCHANGED <<stack, holder, pending_signal>>,
           flags \subseteq flags', undelivered' \subseteq undelivered \cup flags'
    PROVE  FramesOK' /\ ReporterAlone' /\ NoSignalLost'
  <1>1. FramesOK'
    BY DEF FramesOK
  <1>2. ReporterAlone'
    BY DEF ReporterAlone, Top
  <1>3. NoSignalLost'
    BY DEF NoSignalLost
  <1> QED
    BY <1>1, <1>2, <1>3

LEMMA OutsideSteps ==
    ASSUME SignalsAssumption, IInv,
           \/ \E s \in Sig : pypysig_pushback(s) \/ HandlerSetsTicker(s)
           \/ DebuggerAttaches
    PROVE  IInv'
  <1>1. ASSUME NEW s \in Sig, pypysig_pushback(s) PROVE IInv'
    <2>1. SignalsOK'
      BY <1>1 DEF pypysig_pushback, IInv, SignalsOK, perform_vars
    <2>2. UNCHANGED <<stack, holder, pending_signal>> /\ flags \subseteq flags'
          /\ undelivered' \subseteq undelivered \cup flags'
      BY <1>1 DEF pypysig_pushback, perform_vars
    <2> QED
      BY <2>1, <2>2, FramesStay DEF IInv
  <1>2. ASSUME NEW s \in Sig, HandlerSetsTicker(s) PROVE IInv'
    <2>1. SignalsOK'
      BY <1>2 DEF HandlerSetsTicker, IInv, SignalsOK, perform_vars
    <2>2. UNCHANGED <<stack, holder, pending_signal, flags, undelivered>>
      BY <1>2 DEF HandlerSetsTicker, perform_vars
    <2> QED
      BY <2>1, <2>2, FramesStay DEF IInv
  <1>3. ASSUME DebuggerAttaches PROVE IInv'
    <2>1. SignalsOK'
      BY <1>3 DEF DebuggerAttaches, IInv, SignalsOK
    <2>2. UNCHANGED <<stack, holder, pending_signal, flags, undelivered>>
      BY <1>3 DEF DebuggerAttaches
    <2> QED
      BY <2>1, <2>2, FramesStay DEF IInv
  <1> QED
    BY <1>1, <1>2, <1>3

LEMMA FiringSteps ==
    ASSUME SignalsAssumption, IInv, NEW t \in Thread,
           \/ \E a \in Actions : fire(t, a)
           \/ \E u \in Thread : _raise_in_thread(t, u)
    PROVE  IInv'
  <1>1. ASSUME NEW a \in Actions, fire(t, a) PROVE IInv'
    <2>1. SignalsOK'
      BY <1>1, SignalsAssumption DEF fire, IInv, SignalsOK, perform_vars, SignalsAssumption
    <2>2. UNCHANGED <<stack, holder, pending_signal, flags, undelivered>>
      BY <1>1 DEF fire, perform_vars
    <2> QED
      BY <2>1, <2>2, FramesStay DEF IInv
  <1>2. ASSUME NEW u \in Thread, _raise_in_thread(t, u) PROVE IInv'
    <2>1. SignalsOK'
      BY <1>2 DEF _raise_in_thread, IInv, SignalsOK
    <2>2. UNCHANGED <<stack, holder, pending_signal, flags, undelivered>>
      BY <1>2 DEF _raise_in_thread
    <2> QED
      BY <2>1, <2>2, FramesStay DEF IInv
  <1> QED
    BY <1>1, <1>2

LEMMA LoopSteps ==
    ASSUME SignalsAssumption, IInv, NEW t \in Thread,
           \/ ReadTicker(t) \/ DecrementTicker(t) \/ TraceAfterException(t)
           \/ OpcodeDone(t) \/ Caught(t) \/ ResetTicker(t) \/ Block(t) \/ YieldThread(t)
    PROVE  IInv'
  <1> FramesOK
    BY DEF IInv
  <1> USE DEF perform_vars, Runs, Reporting
  <1>p. {"dec", "body", "op", "exc", "unroll", "perform", "blocked", "yielded",
         "nonperiodic"} \subseteq PlainPoints /\ 0 \in Int
    BY DEF PlainPoints, Points, Reporting
  <1>1. CASE ReadTicker(t)
    <2>1. Settled(t)
      BY <1>1, <1>p, Moved DEF ReadTicker
    <2> QED
      BY <1>1, <2>1, NeutralStep DEF ReadTicker
  <1>2. CASE DecrementTicker(t)
    <2>1. Settled(t)
      BY <1>2, <1>p, Moved, Dispatched DEF DecrementTicker
    <2> QED
      BY <1>2, <2>1, NeutralStep DEF DecrementTicker
  <1>3. CASE TraceAfterException(t)
    <2>1. Settled(t)
      BY <1>3, <1>p, Moved, Dispatched DEF TraceAfterException
    <2> QED
      BY <1>3, <2>1, NeutralStep DEF TraceAfterException
  <1>4. CASE OpcodeDone(t)
    <2>1. Settled(t)
      BY <1>4, <1>p, Moved DEF OpcodeDone
    <2> QED
      BY <1>4, <2>1, NeutralStep DEF OpcodeDone
  <1>5. CASE Caught(t)
    <2>1. Settled(t)
      BY <1>5, <1>p, Moved DEF Caught
    <2> QED
      BY <1>5, <2>1, NeutralStep DEF Caught
  <1>6. CASE ResetTicker(t)
    <2>1. Settled(t)
      BY <1>6, <1>p, Moved DEF ResetTicker
    <2> QED
      BY <1>6, <2>1, NeutralStep DEF ResetTicker
  <1>7. CASE Block(t)
    <2>1. Settled(t)
      BY <1>7, <1>p, Moved DEF Block
    <2> QED
      BY <1>7, <2>1, NeutralStep DEF Block
  <1>8. CASE YieldThread(t)
    <2>1. Settled(t)
      BY <1>8, <1>p, Moved, MovedArg DEF YieldThread
    <2> QED
      BY <1>8, <2>1, NeutralStep DEF YieldThread
  <1> QED
    BY <1>1, <1>2, <1>3, <1>4, <1>5, <1>6, <1>7, <1>8

LEMMA AcquireStep ==
    ASSUME SignalsAssumption, IInv, NEW t \in Thread, Acquire(t)
    PROVE  IInv'
  <1>1. {"body", "nonperiodic"} \subseteq PlainPoints /\ 0 \in Int
    BY DEF PlainPoints, Points, Reporting
  <1>2. Settled(t)
    BY <1>1, Moved, MovedArg DEF Acquire, IInv
  <1> QED
    BY <1>2, NeutralStep DEF Acquire, Reporting

LEMMA PerformStep ==
    ASSUME SignalsAssumption, IInv, NEW t \in Thread, Perform(t)
    PROVE  IInv'
  <1>1. {"exc", "unroll", "gil", "poll"} \subseteq PlainPoints /\ "debugging" \in CallPoints
    BY DEF PlainPoints, Points, CallPoints, Reporting
  <1>2. Settled(t)
    <2>1. FramesOK
      BY DEF IInv
    <2>2. CASE RaiseOperationError(t)
      BY <1>1, <2>1, <2>2, Moved DEF RaiseOperationError, Handled
    <2>3. CASE run_debugger(t)
      BY <1>1, <2>1, <2>3, Moved, Called DEF run_debugger
    <2>4. CASE To(t, "poll")
      BY <1>1, <2>1, <2>4, Moved
    <2> QED
      BY <2>2, <2>3, <2>4 DEF Perform, PerformLeaving
  <1> QED
    BY <1>2, NeutralStep DEF Perform, PerformLeaving, Runs, Reporting

LEMMA NonperiodicStep ==
    ASSUME SignalsAssumption, IInv, NEW t \in Thread, Nonperiodic(t)
    PROVE  IInv'
  <1> DEFINE first == Top(t).arg
             todo == {i \in fired : i >= first}
             i == CHOOSE j \in todo : \A k \in todo : j <= k
  <1>0. FramesOK /\ SignalsOK /\ NoSignalLost /\ Top(t) \in GoodFrame
    BY TopFrame DEF IInv
  <1>1. {"body", "unroll", "nonperiodic"} \subseteq PlainPoints /\ "acting" \in CallPoints
    BY DEF PlainPoints, Points, CallPoints, Reporting
  <1>2. CASE todo = {}
    <2>1. To(t, IF Top(t).from = "op" THEN "body" ELSE "unroll") /\ UNCHANGED fired
      BY <1>2 DEF Nonperiodic, ActionsFrom
    <2>2. Settled(t)
      BY <1>0, <1>1, <2>1, Moved
    <2> QED
      BY <2>1, <2>2, NeutralStep DEF Nonperiodic, ActionsFrom, Runs, perform_vars, Reporting
  <1>3. CASE todo # {}
    <2>1. todo \in SUBSET Nat
      BY <1>0 DEF SignalsOK
    <2>2. i \in todo
      BY <1>3, <2>1, LowestExists
    <2>4. fired' = fired \ {i}
          /\ \/ ToArg(t, "nonperiodic", i + 1)
             \/ stack' = [stack EXCEPT ![t] = Append(
                            [stack[t] EXCEPT ![Len(stack[t])].at = "acting",
                                             ![Len(stack[t])].arg = i + 1],
                            NewFrame)]
      BY <1>3 DEF Nonperiodic, ActionsFrom
    <2> HIDE DEF i, todo
    <2>3. i \in Nat /\ i + 1 \in Int
      BY <2>1, <2>2
    <2>5. ASSUME ToArg(t, "nonperiodic", i + 1) PROVE Settled(t)
      BY <1>0, <1>1, <2>3, <2>5, MovedArg
    <2>6. ASSUME stack' = [stack EXCEPT ![t] = Append(
                             [stack[t] EXCEPT ![Len(stack[t])].at = "acting",
                                              ![Len(stack[t])].arg = i + 1],
                             NewFrame)]
          PROVE  Settled(t)
      <3> DEFINE g == [Top(t) EXCEPT !.at = "acting", !.arg = i + 1]
      <3>1. "acting" \in PlainPoints
        BY DEF PlainPoints, Points, Reporting
      <3>2. g \in GoodFrame
        BY <1>0, <2>3, <3>1, PlainFrame
      <3>3. g.at = "acting"
        BY <1>0, <2>3, <3>1, PlainFrame
      <3>4. [stack[t] EXCEPT ![Len(stack[t])].at = "acting", ![Len(stack[t])].arg = i + 1]
              = [stack[t] EXCEPT ![Len(stack[t])] = g]
        <4>1. stack[t] \in Seq(GoodFrame) /\ Len(stack[t]) \in 1..Len(stack[t])
          BY <1>0, TopFrame
        <4> QED
          BY <4>1 DEF Top
      <3> HIDE DEF g
      <3>5. Now(t, NewFrame)
        BY <1>0, <1>1, <2>6, <3>2, <3>3, <3>4, Pushed
      <3> QED
        BY <3>5, CalledFrame
    <2>7. Settled(t)
      BY <2>4, <2>5, <2>6
    <2>8. holder = t /\ Top(t).at \notin Reporting
          /\ UNCHANGED <<flags, pending_signal, undelivered>>
      BY DEF Nonperiodic, ActionsFrom, Runs, perform_vars, Reporting
    <2>9. SignalsOK'
      BY <1>0, <2>4, <2>8 DEF SignalsOK
    <2> QED
      BY <2>7, <2>8, <2>9, Neutral DEF IInv
  <1> QED
    BY <1>2, <1>3

(* Where the dispatcher goes on after a call.                              *)
LEMMA AfterPoints ==
    ASSUME FramesOK, NEW t \in Thread, Nested(t)
    PROVE  AfterCall(t) \in PlainPoints /\ AfterRaise(t) \in PlainPoints
  <1>1. Caller(t).at \in CallPoints
    BY TopFrame DEF Nested
  <1>2. AfterCall(t) \in {"poll", "nonperiodic", "gil"}
    BY <1>1 DEF AfterCall, CallPoints
  <1>3. AfterRaise(t) \in {"poll", "nonperiodic", "gil", "exc", "unroll"}
    BY <1>2 DEF AfterRaise, Handled
  <1> QED
    BY <1>2, <1>3 DEF PlainPoints, Points, Reporting

LEMMA OverflowMoves ==
    ASSUME FramesOK, NEW t \in Thread, RaiseStackOverflow(t)
    PROVE  Settled(t)
  <1>1. "exc" \in PlainPoints
    BY DEF PlainPoints, Points, Reporting
  <1>2. CASE To(t, "exc")
    BY <1>1, <1>2, Moved
  <1>3. CASE Nested(t) /\ Leave(t, AfterRaise(t))
    BY <1>3, AfterPoints, Resumed
  <1> QED
    BY <1>2, <1>3 DEF RaiseStackOverflow

LEMMA NestedReturnsStep ==
    ASSUME SignalsAssumption, IInv, NEW t \in Thread, NestedReturns(t)
    PROVE  IInv'
  <1>1. Settled(t)
    BY AfterPoints, Resumed DEF NestedReturns, IInv
  <1> QED
    BY <1>1, NeutralStep DEF NestedReturns, Runs, perform_vars, Reporting

LEMMA NestedRaisesStep ==
    ASSUME SignalsAssumption, IInv, NEW t \in Thread, NestedRaises(t)
    PROVE  IInv'
  <1>1. Settled(t)
    BY AfterPoints, Resumed DEF NestedRaises, IInv
  <1> QED
    BY <1>1, NeutralStep DEF NestedRaises, Runs, perform_vars, Reporting

(* Polling moves one signal from the flags or the parking place to the     *)
(* frame that reports it, or to the parking place.                         *)
LEMMA PollStep ==
    ASSUME SignalsAssumption, IInv, NEW t \in Thread, PollSignal(t)
    PROVE  IInv'
  <1> DEFINE n == NextSignal
  <1>0. FramesOK /\ SignalsOK /\ NoSignalLost /\ Top(t) \in GoodFrame
    BY TopFrame DEF IInv
  <1>1. Sig \subseteq Nat /\ NoSig \notin Sig /\ NoSig \in Int
    BY SignalsAssumption DEF SignalsAssumption, NoSig
  <1>2. pending_signal = NoSig => n \in flags \cup {NoSig}
    <2>1. CASE flags # {}
      <3>1. flags \in SUBSET Nat
        BY <1>0, <1>1 DEF SignalsOK
      <3> QED
        BY <2>1, <3>1, LowestExists DEF NextSignal, pypysig_poll, Lowest
    <2>2. CASE flags = {}
      BY <2>2 DEF NextSignal, pypysig_poll, Lowest
    <2> QED
      BY <2>1, <2>2
  <1>3. pending_signal # NoSig => n = pending_signal
    BY DEF NextSignal
  <1>4. TakeSignal(t, n)
    BY DEF PollSignal
  <1> HIDE DEF n
  <1>5. n \in Sig \cup {NoSig} /\ n \in Int
    <2>1. flags \subseteq Sig /\ pending_signal \in Sig \cup {NoSig}
      BY <1>0 DEF SignalsOK
    <2>2. n \in Sig \cup {NoSig}
      BY <2>1, <1>2, <1>3
    <2> QED
      BY <2>2, <1>1
  <1>6. /\ flags' = IF pending_signal = NoSig THEN flags \ {n} ELSE flags
        /\ UNCHANGED <<undelivered, fired, holder>>
        /\ holder = t /\ Top(t).at = "poll" /\ Top(t).at \notin Reporting
    BY <1>4 DEF TakeSignal, Runs, Reporting
  <1>7. "gil" \in PlainPoints /\ "report" \in Points
    BY DEF PlainPoints, Points, Reporting
  <1>8. CASE n = NoSig
    <2>1. To(t, "gil") /\ UNCHANGED pending_signal
      BY <1>4, <1>8 DEF TakeSignal
    <2>2. flags' = flags
      BY <1>0, <1>1, <1>6, <1>8 DEF SignalsOK
    <2>3. Settled(t)
      BY <1>0, <1>7, <2>1, Moved
    <2> QED
      BY <1>6, <2>1, <2>2, <2>3, NeutralStep
  <1>9. CASE n # NoSig /\ t \in Enabled
    <2> DEFINE f == [Top(t) EXCEPT !.at = "report", !.arg = n]
    <2>1. pending_signal' = NoSig /\ ToArg(t, "report", n)
      BY <1>4, <1>9 DEF TakeSignal
    <2>2. f \in GoodFrame /\ Holds(f, n)
      BY <1>0, <1>5, <1>7, <1>9 DEF GoodFrame, Frame, Holds, Reporting
    <2>3. Now(t, f)
      BY <1>0, <1>5, <1>7, <2>1, <2>2, ToPointArg
    <2> HIDE DEF f
    <2>4. SignalsOK'
      BY <1>0, <1>6, <2>1 DEF SignalsOK
    <2>5. ASSUME NEW s \in undelivered', ~Holds(f, s)
          PROVE  /\ s \in undelivered /\ ~Holds(Top(t), s)
                 /\ s \in flags => s \in flags'
                 /\ s = pending_signal => s = pending_signal'
      <3>1. s # n
        BY <2>2, <2>5
      <3> QED
        BY <1>1, <1>3, <1>6, <2>1, <2>5, <3>1, <1>0 DEF Holds, SignalsOK
    <2>6. NoSignalLost' /\ FramesOK'
      BY <1>0, <2>3, <2>5, StillHeld DEF Now
    <2>7. ReporterAlone'
      <3>1. \A u \in Thread \ {t} : Top(u)' = Top(u) /\ Top(u).at \notin Reporting
        BY <1>6, <2>3 DEF Now, Top, IInv, ReporterAlone
      <3> QED
        BY <3>1, <1>6, <2>1 DEF ReporterAlone
    <2> QED
      BY <2>4, <2>6, <2>7 DEF IInv
  <1>10. CASE n # NoSig /\ t \notin Enabled
    <2>1. pending_signal' = n /\ To(t, "gil")
      BY <1>4, <1>10 DEF TakeSignal
    <2>2. Settled(t)
      BY <1>0, <1>7, <2>1, Moved
    <2>f. PICK f : Now(t, f)
      BY <2>2 DEF Settled
    <2>3. SignalsOK'
      BY <1>0, <1>5, <1>6, <2>1 DEF SignalsOK
    <2>4. ASSUME NEW s \in undelivered', s # pending_signal'
          PROVE  /\ s \in undelivered /\ ~Holds(Top(t), s)
                 /\ s \in flags => s \in flags'
                 /\ s = pending_signal => s = pending_signal'
      BY <1>1, <1>3, <1>6, <2>1, <2>4, <1>0 DEF Holds, SignalsOK
    <2>5. NoSignalLost' /\ FramesOK'
      BY <1>0, <2>f, <2>4, StillHeld DEF Now
    <2>6. ReporterAlone'
      BY <1>6, <2>2, NobodyReports
    <2> QED
      BY <2>3, <2>5, <2>6 DEF IInv
  <1> QED
    BY <1>8, <1>9, <1>10

LEMMA ReportStep ==
    ASSUME SignalsAssumption, IInv, NEW t \in Thread, ReportSignal(t)
    PROVE  IInv'
  <1>0. FramesOK /\ SignalsOK /\ ReporterAlone /\ NoSignalLost
    BY DEF IInv
  <1>1. holder = t /\ Top(t).at = "report" /\ undelivered' = undelivered \ ({Top(t).arg} \ flags)
        /\ UNCHANGED <<flags, pending_signal, fired, holder>>
    BY DEF ReportSignal, Runs, perform_vars
  <1>2. {"poll", "exc", "unroll"} \subseteq PlainPoints /\ "handler" \in CallPoints
    BY DEF PlainPoints, Points, CallPoints, Reporting
  <1>3. Settled(t)
    BY <1>0, <1>2, Moved, Called DEF ReportSignal, RaiseOperationError, Handled
  <1>4. PICK f : Now(t, f) /\ f.at \notin Reporting
    BY <1>3 DEF Settled
  <1>5. SignalsOK'
    BY <1>0, <1>1 DEF SignalsOK
  <1>6. \A s \in undelivered' : s \in undelivered /\ (s \in flags' \/ ~Holds(Top(t), s))
    BY <1>1 DEF Holds
  <1>7. NoSignalLost' /\ FramesOK'
    BY <1>0, <1>1, <1>4, <1>6, StillHeld DEF Now
  <1>8. ReporterAlone'
    BY <1>0, <1>1, <1>4 DEF ReporterAlone, Now, Top
  <1> QED
    BY <1>5, <1>7, <1>8 DEF IInv

LEMMA ReportOverflowsStep ==
    ASSUME IInv, NEW t \in Thread, ReportOverflows(t)
    PROVE  IInv'
  <1> DEFINE f == At(Top(t), "ovf")
  <1>0. FramesOK /\ SignalsOK /\ ReporterAlone /\ NoSignalLost /\ Top(t) \in GoodFrame
    BY TopFrame DEF IInv
  <1>1. holder = t /\ Top(t).at = "report" /\ To(t, "ovf")
        /\ UNCHANGED <<flags, pending_signal, undelivered, fired, holder>>
    BY DEF ReportOverflows, Runs, perform_vars
  <1>2. SignalsOK'
    BY <1>0, <1>1 DEF SignalsOK
  <1>3. "ovf" \in Points
    BY DEF Points
  <1>4. f \in GoodFrame /\ \A s : Holds(Top(t), s) => Holds(f, s)
    BY <1>0, <1>1, <1>3 DEF GoodFrame, Frame, Holds, At, LoopPoints, Reporting
  <1>5. Now(t, f)
    BY <1>0, <1>1, <1>3, <1>4, ToPoint
  <1> HIDE DEF f
  <1>6. NoSignalLost' /\ FramesOK'
    BY <1>0, <1>1, <1>4, <1>5, StillHeld DEF Now
  <1>7. ReporterAlone'
    <2>1. pending_signal = NoSig
      BY <1>0, <1>1 DEF ReporterAlone, Reporting
    <2> QED
      BY <2>1, <1>0, <1>1, <1>5 DEF ReporterAlone, Now, Top
  <1> QED
    BY <1>2, <1>6, <1>7 DEF IInv

(* The signal whose delivery overflowed takes the parking place, which is  *)
(* free.                                                                   *)
LEMMA RearmStep ==
    ASSUME SignalsAssumption, IInv, NEW t \in Thread, RearmAfterOverflow(t)
    PROVE  IInv'
  <1>0. FramesOK /\ SignalsOK /\ ReporterAlone /\ NoSignalLost /\ Top(t) \in GoodFrame
    BY TopFrame DEF IInv
  <1>1. /\ holder = t /\ Top(t).at = "ovf" /\ Top(t).at \in Reporting
        /\ pending_signal' = Top(t).arg
        /\ RaiseStackOverflow(t) /\ UNCHANGED <<flags, undelivered, fired, holder>>
    BY DEF RearmAfterOverflow, Runs, Reporting
  <1>2. Top(t).arg \in Sig /\ NoSig \notin Sig
    BY <1>0, <1>1, SignalsAssumption DEF GoodFrame, SignalsAssumption, NoSig
  <1>3. pending_signal = NoSig
    BY <1>0, <1>1 DEF ReporterAlone
  <1>4. PICK f : Now(t, f) /\ f.at \notin Reporting
    BY <1>0, <1>1, OverflowMoves DEF Settled
  <1>5. SignalsOK'
    BY <1>0, <1>1, <1>2 DEF SignalsOK
  <1>6. \A s \in undelivered' :
           s = pending_signal' \/ (s \in undelivered /\ ~Holds(Top(t), s) /\ s # pending_signal)
    BY <1>0, <1>1, <1>2, <1>3 DEF Holds, SignalsOK
  <1>7. NoSignalLost' /\ FramesOK'
    BY <1>0, <1>1, <1>4, <1>6, StillHeld DEF Now
  <1>8. ReporterAlone'
    <2>1. \A u \in Thread \ {t} : Top(u)' = Top(u) /\ Top(u).at \notin Reporting
      BY <1>0, <1>1, <1>4 DEF ReporterAlone, Now, Top
    <2>2. Top(t)'.at \notin Reporting
      BY <1>4 DEF Now, Top
    <2> QED
      BY <2>1, <2>2 DEF ReporterAlone
  <1> QED
    BY <1>5, <1>7, <1>8 DEF IInv

----------------------------------------------------------------------------
LEMMA InitIInv ==
    ASSUME SignalsAssumption, Init
    PROVE  IInv
  <1>1. \A t \in Thread : [NewFrame EXCEPT !.at = IF t = holder THEN "op" ELSE "blocked"]
                            \in GoodFrame
    BY DEF NewFrame, GoodFrame, Frame, Points, NoSig, Reporting
  <1>2. FramesOK
    <2>1. \A t \in Thread : stack[t] \in Seq(GoodFrame) /\ Len(stack[t]) = 1
      BY <1>1 DEF Init
    <2>2. stack \in [Thread -> Seq(GoodFrame)]
      BY <2>1 DEF Init
    <2>3. ASSUME NEW t \in Thread, NEW i \in 1..Len(stack[t]) - 1 PROVE FALSE
      <3>1. Len(stack[t]) = 1
        BY <2>1
      <3>2. \A n : n = 1 => 1..n - 1 = {}
        OBVIOUS
      <3> QED
        BY <2>3, <3>1, <3>2
    <2>4. \A t \in Thread : Len(stack[t]) >= 1
      BY <2>1
    <2>5. \A t \in Thread : \A i \in 1..Len(stack[t]) - 1 : stack[t][i].at \in CallPoints
      BY <2>3
    <2> QED
      BY <2>2, <2>4, <2>5 DEF FramesOK
  <1>3. SignalsOK /\ NoSignalLost
    BY SignalsAssumption DEF Init, SignalsOK, NoSignalLost, SignalsAssumption
  <1>4. ReporterAlone
    <2>1. \A t \in Thread : Top(t).at \in {"op", "blocked"}
      BY DEF Init, Top, NewFrame
    <2> QED
      BY <2>1 DEF ReporterAlone, Reporting
  <1> QED
    BY <1>2, <1>3, <1>4 DEF IInv

LEMMA NextIInv ==
    ASSUME SignalsAssumption, IInv, [Next]_vars
    PROVE  IInv'
  <1>1. CASE UNCHANGED vars
    BY <1>1 DEF vars, perform_vars, IInv, FramesOK, SignalsOK, NoSignalLost, ReporterAlone, Top
  <1>2. CASE \/ \E s \in Sig : pypysig_pushback(s) \/ HandlerSetsTicker(s)
             \/ DebuggerAttaches
    BY <1>2, OutsideSteps
  <1>3. ASSUME NEW t \in Thread, Interpreter(t)
        PROVE  IInv'
    BY <1>3, LoopSteps, PerformStep, PollStep, ReportStep, RearmStep, NonperiodicStep DEF Interpreter
  <1>4. ASSUME NEW t \in Thread,
               \/ Block(t) \/ Acquire(t)
               \/ NestedReturns(t) \/ NestedRaises(t) \/ ReportOverflows(t)
               \/ \E a \in Actions : fire(t, a)
               \/ \E u \in Thread : _raise_in_thread(t, u)
        PROVE  IInv'
    BY <1>4, LoopSteps, AcquireStep, NestedReturnsStep, NestedRaisesStep, ReportOverflowsStep,
       FiringSteps
  <1> QED
    BY <1>1, <1>2, <1>3, <1>4 DEF Next

(* No signal that reached the process is lost, whatever the interleaving   *)
(* of C handlers, dispatchers and nested handlers, and though a delivery   *)
(* may run out of stack and put its signal back (_poll_for_signals).       *)
THEOREM SignalsKept == Spec => []NoSignalLost
  <1>1. Init => IInv
    BY InitIInv, SignalsAssumption
  <1>2. IInv /\ [Next]_vars => IInv'
    BY NextIInv, SignalsAssumption
  <1>3. IInv => NoSignalLost
    BY DEF IInv
  <1> QED
    BY <1>1, <1>2, <1>3, PTL DEF Spec

============================================================================
