----------------------------- MODULE SessionService -----------------------------
(***************************************************************************)
(* What the coordinator promises about its cloud sessions, without locks,  *)
(* tasks or retries: sessions are numbered, at most one attempt or one     *)
(* session exists at a time, a number is opened at most once, and once the *)
(* entry is retired there is neither a session nor an attempt ever again.  *)
(***************************************************************************)
EXTENDS Naturals

VARIABLES
    current,    \* number of the open session, 0 when there is none
    last,       \* the last number handed out
    attempting, \* number last is being opened
    retired

vars == <<current, last, attempting, retired>>

Init == current = 0 /\ last = 0 /\ attempting = FALSE /\ retired = FALSE

Quiet == current = 0 /\ ~attempting

Begin ==
    /\ Quiet /\ ~retired
    /\ last' = last + 1 /\ attempting' = TRUE
    /\ UNCHANGED <<current, retired>>

Succeed ==
    /\ attempting
    /\ current' = last /\ attempting' = FALSE
    /\ UNCHANGED <<last, retired>>

Abandon ==
    /\ attempting
    /\ attempting' = FALSE
    /\ UNCHANGED <<current, last, retired>>

End ==
    /\ current # 0
    /\ current' = 0
    /\ UNCHANGED <<last, attempting, retired>>

Retire ==
    /\ Quiet
    /\ retired' = TRUE
    /\ UNCHANGED <<current, last, attempting>>

Next == Begin \/ Succeed \/ Abandon \/ End \/ Retire

Spec == Init /\ [][Next]_vars
=============================================================================
