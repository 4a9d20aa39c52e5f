----------------------------- MODULE SignalManager -----------------------------
(***************************************************************************)
(* ertlibc/signal_manager.cpp and signal.cpp: the array of signal actions  *)
(* under a spinlock, which sigaction exchanges and the exception handler   *)
(* of the enclave reads, and the registration of that handler by the first *)
(* sigaction that sets something.  Threads install actions, all different, *)
(* and fault; only access violations are signals.  The handlers may call   *)
(* sigaction themselves.                                                   *)
(*                                                                         *)
(* Not modelled: the registers that are copied for the handler and back,   *)
(* a fault inside a handler (the enclave ends), the alternate stack.       *)
(***************************************************************************)
EXTENDS Callers, Naturals

CONSTANTS Signal, SIGSEGV,
          MaxActions   \* bound: how many actions are installed

ASSUME SignalAssumption == SIGSEGV \in Signal /\ MaxActions \in Nat

Action == 1..MaxActions
Default == 0   \* what the array is initialized with

VARIABLES enabled,     \* ert_enable_signals
          actions,     \* actions_: by signal
          spinlock,    \* spinlock_
          onceHandler, \* _vectored_exception_handler_once
          registered,  \* external: oe_add_vectored_exception_handler has been called, successfully
          setting,     \* the sigaction of each thread
          faulting,    \* the fault of each thread
          installed,   \* history: how many actions have been given to sigaction
          displaced,   \* history: how often each has been replaced
          told,        \* history: how often each has been the oldact of a replacing call
          armed        \* history: a thread has returned from installing for SIGSEGV

signalVars == <<enabled, actions, spinlock, onceHandler, registered, setting, faulting, installed,
                displaced, told, armed>>
history == <<displaced, told, armed>>

\* sig and act: the arguments; was: what *oldact is set to.
NoSetting == [step |-> "idle", sig |-> SIGSEGV, act |-> Default, was |-> Default]
\* expected, history: whether an installation had been completed when the thread faulted.
NoFault == [step |-> "none", handler |-> Default, expected |-> FALSE]

\* A thread runs program code: its own or that of a handler.
Runs(t) == setting[t].step = "idle" /\ faulting[t].step \in {"none", "handler"}
-----------------------------------------------------------------------------
(* sigaction *)

\* Default stands for no action. A call without oldact is one that ignores it.
Sigaction(t, sig, act) ==
    /\ Runs(t)
    /\ \/ act = Default /\ UNCHANGED installed
       \/ act = installed + 1 /\ installed' = act
    /\ setting' = [setting EXCEPT ![t] = [step |-> "lock", sig |-> sig, act |-> act, was |-> Default]]
    /\ UNCHANGED <<enabled, actions, spinlock, onceHandler, registered, faulting, history>>

LockActions_Not(t) ==
    /\ setting[t].step = "lock"
    /\ setting' = [setting EXCEPT ![t].step = "get"]
    /\ UNCHANGED <<enabled, actions, spinlock, onceHandler, registered, faulting, installed, history>>
LockActions(t) ==
    /\ setting[t].step = "lock" /\ spinlock = None
    /\ spinlock' = t
    /\ setting' = [setting EXCEPT ![t].step = "get"]
    /\ UNCHANGED <<enabled, actions, onceHandler, registered, faulting, installed, history>>

GetOld(t) ==
    /\ setting[t].step = "get"
    /\ setting' = [setting EXCEPT ![t].step = "set", ![t].was = actions[setting[t].sig]]
    /\ UNCHANGED <<enabled, actions, spinlock, onceHandler, registered, faulting, installed, history>>

\* ... and unlock. The handler is registered if an action has been set.
SetAction(t) ==
    LET s == setting[t]
        before == actions[s.sig]
        replaces == s.act # Default
    IN  /\ s.step = "set"
        /\ spinlock' = None
        /\ IF replaces THEN actions' = [actions EXCEPT ![s.sig] = s.act] ELSE UNCHANGED actions
        /\ displaced' = [a \in Action |-> displaced[a] + IF replaces /\ a = before THEN 1 ELSE 0]
        /\ told' = [a \in Action |-> told[a] + IF replaces /\ a = s.was THEN 1 ELSE 0]
        /\ setting' = [setting EXCEPT ![t].step =
              IF enabled /\ replaces THEN "register" ELSE "return"]
        /\ UNCHANGED <<enabled, onceHandler, registered, faulting, installed, armed>>

\* call_once: the first calls the function, the others wait for it. Its result is ignored.
RegisterBegin_Marks(t) ==
    /\ setting[t].step = "register" /\ onceHandler = "no"
    /\ onceHandler' = "done"
    /\ setting' = [setting EXCEPT ![t].step = "add"]
    /\ UNCHANGED <<enabled, actions, spinlock, registered, faulting, installed, history>>
RegisterBegin(t) ==
    /\ setting[t].step = "register" /\ onceHandler = "no"
    /\ onceHandler' = "running"
    /\ setting' = [setting EXCEPT ![t].step = "add"]
    /\ UNCHANGED <<enabled, actions, spinlock, registered, faulting, installed, history>>

Register(t) ==
    /\ setting[t].step = "add"
    /\ registered' \in {"yes", "failed"}
    /\ onceHandler' = "done"
    /\ setting' = [setting EXCEPT ![t].step = "return"]
    /\ UNCHANGED <<enabled, actions, spinlock, faulting, installed, history>>

RegisterEnd(t) ==
    /\ setting[t].step = "register" /\ onceHandler = "done"
    /\ setting' = [setting EXCEPT ![t].step = "return"]
    /\ UNCHANGED <<enabled, actions, spinlock, onceHandler, registered, faulting, installed, history>>

SigactionReturn(t) ==
    /\ setting[t].step = "return"
    /\ setting' = [setting EXCEPT ![t] = NoSetting]
    /\ armed' = (armed \/ (setting[t].sig = SIGSEGV /\ setting[t].act # Default))
    /\ UNCHANGED <<enabled, actions, spinlock, onceHandler, registered, faulting, installed,
                   displaced, told>>
-----------------------------------------------------------------------------
(* SignalManager::vectored_exception_handler *)

\* The enclave ends if the handler is not registered, or if there is no signal for the exception.
Fault(t, signal) ==
    /\ Runs(t) /\ faulting[t].step = "none"
    /\ faulting' = [faulting EXCEPT ![t] =
          [step |-> IF registered = "yes" /\ signal = SIGSEGV THEN "lock" ELSE "unhandled",
           handler |-> Default, expected |-> signal = SIGSEGV /\ armed]]
    /\ UNCHANGED <<enabled, actions, spinlock, onceHandler, registered, setting, installed, history>>

GetHandler(t) ==
    /\ faulting[t].step = "lock" /\ spinlock = None
    /\ faulting' = [faulting EXCEPT ![t].handler = actions[SIGSEGV],
          ![t].step = IF actions[SIGSEGV] = Default THEN "unhandled" ELSE "handler"]
    /\ UNCHANGED <<enabled, actions, spinlock, onceHandler, registered, setting, installed, history>>

HandlerReturn(t) ==
    /\ faulting[t].step = "handler" /\ setting[t].step = "idle"
    /\ faulting' = [faulting EXCEPT ![t] = NoFault]
    /\ UNCHANGED <<enabled, actions, spinlock, onceHandler, registered, setting, installed, history>>
-----------------------------------------------------------------------------
SignalInit ==
    /\ enabled \in BOOLEAN
    /\ actions = [s \in Signal |-> Default]
    /\ spinlock = None /\ onceHandler = "no" /\ registered = "no"
    /\ setting = [t \in Thread |-> NoSetting]
    /\ faulting = [t \in Thread |-> NoFault]
    /\ installed = 0 /\ armed = FALSE
    /\ displaced = [a \in Action |-> 0] /\ told = [a \in Action |-> 0]

\* The enclave has ended.
Ended == \E t \in Thread : faulting[t].step = "unhandled"

SigactionStep(t) == \/ LockActions(t) \/ GetOld(t) \/ SetAction(t)
                    \/ RegisterBegin(t) \/ Register(t) \/ RegisterEnd(t) \/ SigactionReturn(t)

SignalNext ==
    /\ ~Ended
    /\ \E t \in Thread :
          \/ \E sig \in Signal, act \in Action \cup {Default} :
                Sigaction(t, sig, act)
          \/ SigactionStep(t)
          \/ \E signal \in {SIGSEGV, None} : Fault(t, signal)
          \/ GetHandler(t) \/ HandlerReturn(t)
-----------------------------------------------------------------------------
(* Properties *)

\* Concurrent calls of sigaction form a chain: an action is replaced at most once and is given back
\* exactly then, to one call. So programs that pass signals on to the previous handler, as runtimes
\* do that share a process, leave out none and call none twice.
ActionsChained ==
    \A a \in Action :
        /\ displaced[a] <= 1 /\ told[a] = displaced[a]
        /\ (\E s \in Signal : actions[s] = a) => displaced[a] = 0

\* A fault goes unhandled only if no thread had returned from installing an action before it, the
\* registration has failed (which sigaction does not report) or signals are switched off: whoever
\* has installed an action may rely on it, also where another thread is registering the handler.
FaultFindsHandler ==
    \A t \in Thread : faulting[t].step = "unhandled" /\ faulting[t].expected =>
        registered = "failed" \/ ~enabled
=============================================================================
