---------------------------- MODULE CapeTxContract ----------------------------
(***************************************************************************)
(* What an instrumented function promises at run time, seen as one        *)
(* sequence of events (spec 4.2 and 8.3): a transaction opens and closes,  *)
(* preloads happen inside it, and every secret-dependent access and every  *)
(* call it makes find their memory and code preloaded since it opened.    *)
(* Nested starts, ends outside a transaction and bookkeeping calls are    *)
(* invisible at this level.                                                *)
(*                                                                         *)
(*   open    a transaction is running                                      *)
(*   loaded  objects and functions preloaded since it (last) began         *)
(*   at      the event under way: idle, a sensitive access of objs, a     *)
(*           call of f, the return, or the exit of a failed retry loop     *)
(***************************************************************************)
VARIABLES open, loaded, at

Idle == [k |-> "idle"]

Init ==
    /\ open = FALSE
    /\ loaded = {}
    /\ at = Idle

\* A transaction begins: nothing of it is preloaded yet.
Begin ==
    /\ ~open /\ at = Idle
    /\ open' = TRUE /\ loaded' = {}
    /\ UNCHANGED at

Commit ==
    /\ open
    /\ open' = FALSE
    /\ UNCHANGED <<loaded, at>>

\* Preloads run only inside the transaction that owns them.
Preload ==
    /\ open /\ at = Idle
    /\ loaded \subseteq loaded'
    /\ UNCHANGED <<open, at>>

\* An abort rolls the transaction back; it begins again, preloads ahead.
Restart ==
    /\ open
    /\ open' = TRUE /\ loaded' = {} /\ at' = Idle

\* The retry loop gives up: the program exits.
Exit ==
    /\ open
    /\ open' = FALSE /\ at' = [k |-> "exit"]
    /\ UNCHANGED loaded

\* A secret-dependent access, inside a transaction, of preloaded objects.
Access ==
    /\ at = Idle /\ at'.k = "access"
    /\ open /\ at'.objs \subseteq loaded
    /\ UNCHANGED <<open, loaded>>

\* A call made inside a transaction is to a function whose code is loaded.
CallFn ==
    /\ at = Idle /\ at'.k = "call"
    /\ open => at'.f \in loaded
    /\ UNCHANGED <<open, loaded>>

\* The function returns with no transaction open.
Return ==
    /\ at = Idle /\ at' = [k |-> "ret"]
    /\ ~open
    /\ UNCHANGED <<open, loaded>>

\* An access or a call completes.
Leave ==
    /\ at.k \in {"access", "call"} /\ at' = Idle
    /\ UNCHANGED <<open, loaded>>

Next == Begin \/ Commit \/ Preload \/ Restart \/ Exit \/ Access \/ CallFn \/ Return \/ Leave

Spec == Init /\ [][Next]_<<open, loaded, at>>
==============================================================================
