---------------------------- MODULE ServedInstance ----------------------------
(***************************************************************************)
(* What the supervisor promises those who call an instance, with no gate,  *)
(* row, timer or signal in sight: a process is announced when it begins to *)
(* serve and the announcement stays as long as it does; a call that uses   *)
(* the instance uses the process that serves and loses it only to an exit, *)
(* an operation or the end of the daemon; and the idle stopper, which may  *)
(* come at any time, parks only what nobody uses.                          *)
(* Supervisor implements it, while no import changes the service's mode.   *)
(***************************************************************************)

CONSTANTS
    Process,    \* processes
    Call,       \* calls that may use the instance
    None        \* no process

VARIABLES
    accepting,  \* whether the daemon starts processes
    serving,    \* the process that serves
    users,      \* the calls that use it
    told,       \* the address the row tells, named by its process
    parking     \* whether the idle stopper is at work

vars == <<accepting, serving, users, told, parking>>

Init ==
    /\ accepting = TRUE /\ parking = FALSE
    /\ serving = None /\ users = {} /\ told = None

-----------------------------------------------------------------------------
(* Processes                                                                *)

\* A process is announced with its first moment; it may not live to see it.
Launch(p) ==
    /\ accepting /\ ~parking
    /\ serving = None /\ serving' \in {p, None}
    /\ told' = p
    /\ UNCHANGED <<accepting, users, parking>>

\* It exits or is stopped, and with it goes what its users held.
Gone ==
    /\ serving # None /\ serving' = None
    /\ users' = {}
    /\ told' \in {told, None}
    /\ UNCHANGED <<accepting, parking>>

\* The address is withdrawn after the process, never before.
Withdraw ==
    /\ serving = None
    /\ told' = None
    /\ UNCHANGED <<accepting, serving, users, parking>>

-----------------------------------------------------------------------------
(* Calls                                                                    *)

Use(c) ==
    /\ accepting /\ serving # None
    /\ users' = users \union {c}
    /\ UNCHANGED <<accepting, serving, told, parking>>

Leave(c) ==
    /\ users' = users \ {c}
    /\ UNCHANGED <<accepting, serving, told, parking>>

-----------------------------------------------------------------------------
(* The idle stopper                                                         *)

Park ==
    /\ accepting /\ ~parking /\ users = {}
    /\ parking' = TRUE
    /\ serving' = None
    /\ UNCHANGED <<accepting, users, told>>

\* A parked instance is cold: it has no address.
Parked ==
    /\ parking /\ parking' = FALSE
    /\ told' = None
    /\ UNCHANGED <<accepting, serving, users>>

-----------------------------------------------------------------------------
(* The daemon                                                               *)

Close ==
    /\ accepting /\ accepting' = FALSE
    /\ UNCHANGED <<serving, users, told, parking>>

\* However it ends, what it left running serves nobody.
End ==
    /\ accepting' = FALSE /\ serving' = None /\ users' = {} /\ parking' = FALSE
    /\ UNCHANGED told

\* The next daemon trusts no address it finds.
Open ==
    /\ ~accepting /\ serving = None /\ ~parking
    /\ accepting' = TRUE
    /\ UNCHANGED <<serving, users, told, parking>>

Next ==
    \/ \E p \in Process : Launch(p)
    \/ Gone \/ Withdraw
    \/ \E c \in Call : Use(c) \/ Leave(c)
    \/ Park \/ Parked
    \/ Close \/ End \/ Open

Spec == Init /\ [][Next]_vars

=============================================================================
