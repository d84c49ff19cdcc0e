---------------------------- MODULE CommandLog ----------------------------
(* What the pendant-to-PLC command mailbox promises to the rest of the      *)
(* pendant, without its sequence numbers, registers and scan cycle: requests *)
(* are numbered as they are issued, and the PLC handles (executes or         *)
(* rejects) each of them at most once and in the order of issue.  A request  *)
(* may be lost: then it is skipped for ever.                                 *)
EXTENDS Integers, Sequences

VARIABLES
    issued,     \* number of requests issued so far; they are numbered 1..issued
    log         \* the requests the PLC has handled, oldest first

LastOf(s) == IF s = <<>> THEN 0 ELSE s[Len(s)]

Init == issued = 0 /\ log = <<>>

Issue == issued' = issued + 1 /\ UNCHANGED log

Handle ==
    /\ \E id \in 1 .. issued :
          /\ LastOf(log) < id
          /\ log' = Append(log, id)
    /\ UNCHANGED issued

Next == Issue \/ Handle

Spec == Init /\ [][Next]_<<issued, log>>
============================================================================
