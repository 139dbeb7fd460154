------------------------------ MODULE Signals ------------------------------
(***************************************************************************)
(* Asynchronous actions and signal delivery: the ticker and the action     *)
(* dispatcher of pypy/interpreter/executioncontext.py, their use by the    *)
(* bytecode loop of pyopcode.py, CheckSignalAction of pypy/module/signal   *)
(* and the C signal handler of signals.c.                                  *)
(*                                                                         *)
(* The C handler runs at any time, in any thread, with or without the      *)
(* interpreter lock.  Everything else runs with the lock, which is the one *)
(* InterpreterLock specifies; it changes hands where the code releases it. *)
(* Python code started by the dispatcher (a signal handler, a __del__) is  *)
(* a nested frame with a bytecode loop of its own.                         *)
(***************************************************************************)
EXTENDS Integers, Sequences, FiniteSets

CONSTANTS
    Thread, NoThread,
    Enabled,        \* the threads with ec._signals_enabled: the main thread
    Sig,            \* signal numbers with a Python handler
    Actions,        \* indices of the nonperiodic actions, 0..k-1
    Interval,       \* checkinterval, in bytecodes
    HasCounter,     \* has_bytecode_counter: the thread module is there
    MaxNest,        \* bound: nested frames of a thread
    MaxEvents,      \* bound: signals, fire()s, async exceptions, debuggers
    MaxOverflows    \* bound: deliveries that run out of stack

ASSUME SignalsAssumption ==
    /\ Enabled \subseteq Thread /\ NoThread \notin Thread
    /\ Sig \subseteq Nat /\ Actions \subseteq Nat
    /\ \A i \in Actions : \A j \in 0..i : j \in Actions
    /\ Interval \in Nat \ {0} /\ HasCounter \in BOOLEAN
    /\ {MaxNest, MaxEvents, MaxOverflows} \subseteq Nat

NoSig == -1

VARIABLES
    holder,          \* who holds the interpreter lock
    stack,           \* the frames of each thread, innermost last
    seen,            \* the local 'value' of decrement_ticker
    ticker,          \* pypysig_counter.inner.value
    flags,           \* pypysig_flags_bits
    handling,        \* the signals whose C handler set the flag, not yet the ticker
    pending_signal,  \* CheckSignalAction.pending_signal
    fire_in_another_thread,
    fired,           \* _fired_bitmask
    async_exc,       \* the threads with w_async_exception_type set
    debugger,        \* debugger_pending_call
    undelivered,     \* history: arrived signals whose handler has not run
    events, overflows

perform_vars == <<pending_signal, fire_in_another_thread, async_exc, debugger>>
vars == <<holder, stack, seen, ticker, flags, handling, perform_vars, fired,
          undelivered, events, overflows>>

(***************************************************************************)
(* A frame is at a point of the bytecode loop or of the dispatcher it      *)
(* called.  'from' tells bytecode_trace ("op") from                        *)
(* bytecode_trace_after_exception ("exc"); 'arg' is the signal being       *)
(* reported or the index of the next nonperiodic action.  At "debugging",  *)
(* "handler" and "acting" the dispatcher waits for the frame above.        *)
(***************************************************************************)
NewFrame == [at |-> "op", from |-> "op", arg |-> NoSig]

Init ==
    /\ holder \in Enabled
    /\ stack = [t \in Thread |->
                  <<[NewFrame EXCEPT !.at = IF t = holder THEN "op" ELSE "blocked"]>>]
    /\ seen = [t \in Thread |-> 0]
    /\ ticker = Interval
    /\ flags = {} /\ handling = {}
    /\ pending_signal = NoSig /\ fire_in_another_thread = FALSE
    /\ fired = {} /\ async_exc = {} /\ debugger = FALSE
    /\ undelivered = {}
    /\ events = MaxEvents /\ overflows = MaxOverflows

Top(t) == stack[t][Len(stack[t])]
Runs(t, point) == holder = t /\ Top(t).at = point
Nested(t) == Len(stack[t]) > 1

(* The frame f goes on at 'point'; it forgets what the dispatcher it left  *)
(* was about.                                                              *)
LoopPoints == {"op", "dec", "body", "exc", "unroll", "blocked"}
At(f, point) ==
    [at |-> point,
     from |-> IF point \in LoopPoints THEN "op" ELSE f.from,
     arg |-> IF point \in {"ovf", "nonperiodic"} THEN f.arg ELSE NoSig]

To(t, point) == stack' = [stack EXCEPT ![t][Len(stack[t])] = At(@, point)]
ToArg(t, point, arg) ==
    stack' = [stack EXCEPT ![t][Len(stack[t])].at = point,
                           ![t][Len(stack[t])].arg = arg]
Call(t, point) ==
    stack' = [stack EXCEPT ![t] =
        Append([stack[t] EXCEPT ![Len(stack[t])] = At(@, point)], NewFrame)]
(* Leave the innermost frame; its caller goes on at 'point'.               *)
Leave(t, point) ==
    stack' = [stack EXCEPT ![t] =
        [i \in 1..(Len(stack[t]) - 1) |->
            IF i = Len(stack[t]) - 1 THEN At(stack[t][i], point) ELSE stack[t][i]]]
Caller(t) == stack[t][Len(stack[t]) - 1]

----------------------------------------------------------------------------
(* The C signal handler: set the flag, then the ticker.  It is also what   *)
(* set_interrupt() does.                                                   *)

pypysig_pushback(s) ==
    /\ events > 0 /\ events' = events - 1
    /\ s \notin handling
    /\ flags' = flags \cup {s}
    /\ handling' = handling \cup {s}
    /\ undelivered' = undelivered \cup {s}
    /\ UNCHANGED <<holder, stack, seen, ticker, perform_vars, fired, overflows>>

HandlerSetsTicker(s) ==
    /\ s \in handling
    /\ ticker' = -1
    /\ handling' = handling \ {s}
    /\ UNCHANGED <<holder, stack, seen, flags, perform_vars, fired, undelivered,
                   events, overflows>>

(* An attached debugger writes the flag and the ticker from outside.       *)
DebuggerAttaches ==
    /\ events > 0 /\ events' = events - 1
    /\ debugger' = TRUE
    /\ ticker' = -1
    /\ UNCHANGED <<holder, stack, seen, flags, handling, pending_signal,
                   fire_in_another_thread, async_exc, fired, undelivered, overflows>>

Lowest(set) == IF set = {} THEN NoSig ELSE CHOOSE s \in set : \A r \in set : s <= r

(* Mutant: the loop over the flag words ends one signal too early.         *)
PollMissesLast == Lowest({s \in flags : \E r \in Sig : r > s})

(* Lowest-numbered flag first.                                             *)
pypysig_poll == Lowest(flags)

----------------------------------------------------------------------------
(* The bytecode loop.                                                      *)

(* decrement_ticker reads the ticker, then writes it back: the C handler   *)
(* may come in between.                                                    *)
ReadTicker(t) ==
    /\ Runs(t, "op")
    /\ seen' = [seen EXCEPT ![t] = ticker]
    /\ To(t, "dec")
    /\ UNCHANGED <<holder, ticker, flags, handling, perform_vars, fired,
                   undelivered, events, overflows>>

Dispatch(t, from) ==
    stack' = [stack EXCEPT ![t][Len(stack[t])] =
                  [at |-> "reset", from |-> from, arg |-> NoSig]]

DecrementTicker(t) ==
    LET value == IF HasCounter THEN seen[t] - 1 ELSE seen[t]
    IN /\ Runs(t, "dec")
       /\ ticker' = IF HasCounter THEN value ELSE ticker
       /\ IF value < 0 THEN Dispatch(t, "op") ELSE To(t, "body")
       /\ seen' = [seen EXCEPT ![t] = 0]
       /\ UNCHANGED <<holder, flags, handling, perform_vars, fired,
                      undelivered, events, overflows>>

(* The opcode: it completes, or raises.                                    *)
OpcodeDone(t) ==
    /\ Runs(t, "body")
    /\ To(t, "op") \/ To(t, "exc")
    /\ UNCHANGED <<holder, seen, ticker, flags, handling, perform_vars, fired,
                   undelivered, events, overflows>>

(* handle_operation_error: bytecode_trace_after_exception first.           *)
TraceAfterException(t) ==
    /\ Runs(t, "exc")
    /\ IF ticker < 0 THEN Dispatch(t, "exc") ELSE To(t, "unroll")
    /\ UNCHANGED <<holder, seen, ticker, flags, handling, perform_vars, fired,
                   undelivered, events, overflows>>

(* An "except" block of this frame takes the exception.                    *)
Caught(t) ==
    /\ Runs(t, "unroll")
    /\ To(t, "op")
    /\ UNCHANGED <<holder, seen, ticker, flags, handling, perform_vars, fired,
                   undelivered, events, overflows>>

(* Request for the action to be run before the next opcode.                *)
fire(t, a) ==
    /\ Runs(t, "body")
    /\ events > 0 /\ events' = events - 1
    /\ a \notin fired
    /\ fired' = fired \cup {a}
    /\ ticker' = -1
    /\ UNCHANGED <<holder, stack, seen, flags, handling, perform_vars,
                   undelivered, overflows>>

_raise_in_thread(t, u) ==
    /\ Runs(t, "body")
    /\ events > 0 /\ events' = events - 1
    /\ async_exc' = async_exc \cup {u}
    /\ ticker' = -1
    /\ UNCHANGED <<holder, stack, seen, flags, handling, pending_signal,
                   fire_in_another_thread, debugger, fired, undelivered, overflows>>

----------------------------------------------------------------------------
(* The interpreter lock changes hands.                                     *)

(* An opcode that blocks in an external call.                              *)
Block(t) ==
    /\ Runs(t, "body")
    /\ holder' = NoThread
    /\ To(t, "blocked")
    /\ UNCHANGED <<seen, ticker, flags, handling, perform_vars, fired,
                   undelivered, events, overflows>>

(* rgil.acquire(), with the _after_thread_switch callback.                 *)
Acquire(t) ==
    /\ holder = NoThread
    /\ Top(t).at \in {"blocked", "yielded"}
    /\ holder' = t
    /\ IF Top(t).at = "blocked" THEN To(t, "body") ELSE ToArg(t, "nonperiodic", 0)
    /\ IF t \in async_exc
         THEN ticker' = -1 /\ UNCHANGED fire_in_another_thread
         ELSE IF fire_in_another_thread /\ t \in Enabled
                THEN ticker' = -1 /\ fire_in_another_thread' = FALSE
                ELSE UNCHANGED <<ticker, fire_in_another_thread>>
    /\ UNCHANGED <<seen, flags, handling, pending_signal, async_exc, debugger,
                   fired, undelivered, events, overflows>>

----------------------------------------------------------------------------
(* action_dispatcher: reset the ticker, signals, the lock, then the fired  *)
(* nonperiodic actions.                                                    *)

ResetTicker(t) ==
    /\ Runs(t, "reset")
    /\ ticker' = Interval
    /\ To(t, "perform")
    /\ UNCHANGED <<holder, seen, flags, handling, perform_vars, fired,
                   undelivered, events, overflows>>

(* A frame called by the dispatcher returns, or raises.  What a handler    *)
(* raises leaves the dispatcher: called from bytecode_trace, it is handled *)
(* by the dispatcher's frame; called while an exception is being handled,  *)
(* it replaces that one.  What a finalizer or a debugger script raises is  *)
(* reported and dropped.                                                   *)
AfterCall(t) == CASE Caller(t).at = "handler" -> "poll"
                  [] Caller(t).at = "acting" -> "nonperiodic"
                  [] Caller(t).at = "debugging" -> "gil"
Handled(frame) == IF frame.from = "op" THEN "exc" ELSE "unroll"
AfterRaise(t) == IF Caller(t).at = "handler" THEN Handled(Caller(t)) ELSE AfterCall(t)

RaiseOperationError(t) == To(t, Handled(Top(t)))

(* A StackOverflow in bytecode_trace is handled by this frame.  Raised     *)
(* while an exception is being handled it leaves the frame, and            *)
(* execute_frame makes it an OperationError: it is handled by the loop of  *)
(* an ordinary caller, or comes out of the call the dispatcher made.       *)
RaiseStackOverflow(t) ==
    \/ To(t, "exc")
    \/ /\ Top(t).from = "exc" /\ Nested(t)
       /\ Leave(t, AfterRaise(t))

(* Execute the debugger's script, unless that is disabled or fails early.  *)
run_debugger(t) == \/ To(t, "gil")
                   \/ Len(stack[t]) < MaxNest /\ Call(t, "debugging")

(* CheckSignalAction.perform and the head of _poll_for_signals.  A pending *)
(* debugger call runs its script, or nothing, and polls no signal.         *)
PerformLeaving(t, left) ==
    /\ Runs(t, "perform")
    /\ IF t \in async_exc
         THEN /\ async_exc' = left
              /\ RaiseOperationError(t)
              /\ UNCHANGED debugger
         ELSE /\ debugger' = FALSE
              /\ IF debugger THEN run_debugger(t) ELSE To(t, "poll")
              /\ UNCHANGED async_exc
    /\ UNCHANGED <<holder, seen, ticker, flags, handling, pending_signal,
                   fire_in_another_thread, fired, undelivered, events, overflows>>

(* Mutant: the asynchronous exception is raised and not cleared.           *)
PerformKeepsAsync(t) == PerformLeaving(t, async_exc)

Perform(t) == PerformLeaving(t, async_exc \ {t})

(* One turn of the loop over n: take the parked signal or poll for one;    *)
(* report it here or park it for a thread that may.                        *)
TakeSignal(t, n) ==
    /\ Runs(t, "poll")
    /\ flags' = IF pending_signal = NoSig THEN flags \ {n} ELSE flags
    /\ CASE n = NoSig ->
              /\ To(t, "gil")
              /\ UNCHANGED <<pending_signal, fire_in_another_thread>>
         [] n # NoSig /\ t \in Enabled ->
              /\ pending_signal' = NoSig
              /\ ToArg(t, "report", n)
              /\ UNCHANGED fire_in_another_thread
         [] n # NoSig /\ t \notin Enabled ->
              /\ pending_signal' = n
              /\ fire_in_another_thread' = TRUE
              /\ To(t, "gil")
    /\ UNCHANGED <<holder, seen, ticker, handling, async_exc, debugger, fired,
                   undelivered, events, overflows>>

NextSignal == IF pending_signal # NoSig THEN pending_signal ELSE pypysig_poll

(* Mutant: the parked signal is not looked at.                             *)
PollIgnoresParked(t) == TakeSignal(t, pypysig_poll)

PollSignal(t) == TakeSignal(t, NextSignal)

(* report_signal: the handler is not callable or runs no bytecode, and     *)
(* then returns or raises (default_int_handler); runs in a nested frame;   *)
(* or cannot be called for lack of stack.  A signal that arrived again     *)
(* since it was polled has its flag set and is not delivered by this.      *)
ReportSignal(t) ==
    /\ Runs(t, "report")
    /\ undelivered' = undelivered \ ({Top(t).arg} \ flags)
    /\ \/ To(t, "poll")
       \/ RaiseOperationError(t)
       \/ Len(stack[t]) < MaxNest /\ Call(t, "handler")
    /\ UNCHANGED <<holder, seen, ticker, flags, handling, perform_vars, fired,
                   events, overflows>>

ReportOverflows(t) ==
    /\ Runs(t, "report")
    /\ overflows > 0 /\ overflows' = overflows - 1
    /\ To(t, "ovf")
    /\ UNCHANGED <<holder, seen, ticker, flags, handling, perform_vars, fired,
                   undelivered, events>>

(* The "except StackOverflow" of _poll_for_signals: put the signal back.   *)
RearmAfterOverflow(t) ==
    /\ Runs(t, "ovf")
    /\ pending_signal' = Top(t).arg
    /\ ticker' = -1
    /\ RaiseStackOverflow(t)
    /\ UNCHANGED <<holder, seen, flags, handling, fire_in_another_thread,
                   async_exc, debugger, fired, undelivered, events, overflows>>

(* A nested frame ends.  Normalising what a handler raised runs with the   *)
(* stack check off, so it cannot overflow.                                 *)
NestedReturns(t) ==
    /\ Runs(t, "body") /\ Nested(t)
    /\ Leave(t, AfterCall(t))
    /\ UNCHANGED <<holder, seen, ticker, flags, handling, perform_vars, fired,
                   undelivered, events, overflows>>

NestedRaises(t) ==
    /\ Runs(t, "unroll") /\ Nested(t)
    /\ Leave(t, AfterRaise(t))
    /\ UNCHANGED <<holder, seen, ticker, flags, handling, perform_vars, fired,
                   undelivered, events, overflows>>

(* GILReleaseAction: yield_thread, which may find nobody waiting.          *)
YieldThread(t) ==
    /\ Runs(t, "gil")
    /\ \/ holder' = NoThread /\ To(t, "yielded")
       \/ holder' = t /\ ToArg(t, "nonperiodic", 0)
    /\ UNCHANGED <<seen, ticker, flags, handling, perform_vars, fired,
                   undelivered, events, overflows>>

(* The loop over the nonperiodic actions from index arg on.  The bit is    *)
(* cleared before the action is performed.                                 *)
ActionsFrom(t, first) ==
    LET todo == {i \in fired : i >= first}
        i == CHOOSE j \in todo : \A k \in todo : j <= k
    IN /\ Runs(t, "nonperiodic")
       /\ IF todo = {}
            THEN /\ To(t, IF Top(t).from = "op" THEN "body" ELSE "unroll")
                 /\ ticker' = IF fired # {} THEN -1 ELSE ticker
                 /\ UNCHANGED fired
            ELSE /\ fired' = fired \ {i}
                 /\ UNCHANGED ticker
                 /\ \/ ToArg(t, "nonperiodic", i + 1)
                    \/ /\ Len(stack[t]) < MaxNest
                       /\ stack' = [stack EXCEPT ![t] = Append(
                            [stack[t] EXCEPT ![Len(stack[t])].at = "acting",
                                             ![Len(stack[t])].arg = i + 1],
                            NewFrame)]
       /\ UNCHANGED <<holder, seen, flags, handling, perform_vars, undelivered,
                      events, overflows>>

(* Mutant: the loop starts one action too late.                            *)
NonperiodicOffByOne(t) == ActionsFrom(t, Top(t).arg + 1)

Nonperiodic(t) == ActionsFrom(t, Top(t).arg)

----------------------------------------------------------------------------
Interpreter(t) ==
    \/ ReadTicker(t) \/ DecrementTicker(t) \/ TraceAfterException(t)
    \/ OpcodeDone(t) \/ Caught(t)
    \/ ResetTicker(t) \/ Perform(t) \/ PollSignal(t) \/ ReportSignal(t)
    \/ RearmAfterOverflow(t) \/ YieldThread(t) \/ Nonperiodic(t)

Next ==
    \/ \E s \in Sig : pypysig_pushback(s) \/ HandlerSetsTicker(s)
    \/ DebuggerAttaches
    \/ \E t \in Thread :
        \/ Interpreter(t) \/ Block(t) \/ Acquire(t)
        \/ NestedReturns(t) \/ NestedRaises(t) \/ ReportOverflows(t)
        \/ \E a \in Actions : fire(t, a)
        \/ \E u \in Thread : _raise_in_thread(t, u)

Spec == Init /\ [][Next]_vars

(***************************************************************************)
(* Fairness.  The thread with the lock goes on interpreting; the C handler *)
(* finishes.  Gil!AcquireReturns gives: a thread that wants the lock gets  *)
(* it, and a yield hands it over when somebody wants it.  A blocking call  *)
(* returns (a signal interrupts it with EINTR).  Handlers and finalizers   *)
(* end.                                                                    *)
(***************************************************************************)
YieldHandsOver(t) == YieldThread(t) /\ holder' = NoThread

Fairness ==
    /\ WF_vars(\E s \in Sig : HandlerSetsTicker(s))
    /\ WF_vars(\E t \in Thread : Interpreter(t))
    /\ SF_vars(\E t \in Thread : YieldHandsOver(t))
    /\ \A t \in Thread :
        /\ SF_vars(OpcodeDone(t))
        /\ SF_vars(Acquire(t))
        /\ SF_vars(NestedReturns(t) \/ NestedRaises(t))

FairSpec == Spec /\ Fairness

----------------------------------------------------------------------------
(* No signal is lost: until its Python handler has been called, a signal   *)
(* that reached the process is a flag of the C code, the parked signal, or *)
(* in the hands of a dispatcher.  The comment in _poll_for_signals is      *)
(* about this: "without this the signal would be silently lost for good".  *)
NoSignalLost ==
    \A s \in undelivered :
        \/ s \in flags \/ s = pending_signal
        \/ \E t \in Thread : \E i \in 1..Len(stack[t]) :
              stack[t][i].at \in {"report", "ovf"} /\ stack[t][i].arg = s

(* Every signal is eventually delivered: although the ticker's -1 may be   *)
(* overwritten by decrement_ticker, a thread that may not run handlers may *)
(* take the signal first, an asynchronous exception or a debugger may come *)
(* before it in perform(), and its delivery may run out of stack.          *)
SignalsDelivered == \A s \in Sig : s \in undelivered ~> s \notin undelivered

(* Every fired action is eventually performed, though a periodic action    *)
(* may raise out of the dispatcher before it is reached.                   *)
FiredActionsPerformed == \A a \in Actions : a \in fired ~> a \notin fired

(* An exception scheduled by _raise_in_thread is eventually raised there.  *)
AsyncExceptionsRaised == \A t \in Thread : t \in async_exc ~> t \notin async_exc
=============================================================================
