---------------------------- MODULE MCDevHarness -----------------------------
(***************************************************************************)
(* Two terminals that work on the scope, one after the other in            *)
(* MCDevHarness, at the same time in MCDevHarnessShared. Beside a scope    *)
(* that is not touched the remote configuration is set up, edited and read *)
(* by other commands of the same script: the two share no file.            *)
(***************************************************************************)
EXTENDS DevHarness, RemoteSetup

CONSTANTS t1, t2

\* One state of a scope nobody has worked on.
Untouched ==
  /\ sources = 0 /\ declared = 0 /\ cache = "none"
  /\ \A t \in Terminals : ~msvc[t] /\ command[t].n = 0

InitAll == Init /\ RemoteInit /\ (keyExists => Untouched)

NextAll ==
  \/ used = 0 /\ ~keyExists /\ Next /\ UNCHANGED remote
  \/ Untouched /\ RemoteNext /\ UNCHANGED vars

\* The tools return, with success or without; the user need not answer.
SpecAll ==
  /\ InitAll
  /\ [][NextAll]_<<vars, remote>>
  /\ \A t \in Terminals : WF_vars(Step(t) /\ UNCHANGED remote)
=============================================================================
