-------------------------------- MODULE ArgList --------------------------------
(***************************************************************************)
(* What the packet functions of HCP promise (BMLite_sdk/inc/hcp_tiny.h):   *)
(* a command is a list of arguments that grows at its end, an answer is    *)
(* another such list, and a search returns the first argument that has the *)
(* key, with all of its data, or says that there is none.  What is in a    *)
(* packet whose reception failed is left open.                             *)
(***************************************************************************)
EXTENDS Integers, Sequences

VARIABLES
  holds,   \* what the buffer holds: "nothing", "command", "reply" or "broken"
  args,    \* the arguments, each with its key and data
  found    \* what the last search returned, as long as it is valid

alVars == <<holds, args, found>>

Nothing == [key |-> 0, ok |-> FALSE, data |-> <<>>]

AlInit ==
  /\ holds = "nothing"
  /\ args = <<>>
  /\ found = Nothing

\* A new command, with one argument that has no data or with none.
Begin ==
  /\ holds' = "command"
  /\ \/ args' = <<>>
     \/ Len(args') = 1 /\ args'[1].data = <<>>
  /\ found' = Nothing

Add ==
  /\ holds = "command"
  /\ Len(args') = Len(args) + 1
  /\ SubSeq(args', 1, Len(args)) = args
  /\ found' = Nothing
  /\ UNCHANGED holds

Answer ==
  /\ holds = "command"
  /\ holds' \in {"reply", "broken"}
  /\ found' = Nothing

IsFirst(j, key) == args[j].key = key /\ \A k \in 1..(j - 1) : args[k].key # key

Find ==
  /\ holds \in {"command", "reply"}
  /\ \/ /\ found'.ok
        /\ \E j \in 1..Len(args) :
             /\ IsFirst(j, found'.key)
             /\ found'.data = args[j].data
     \/ /\ ~found'.ok
        /\ \A j \in 1..Len(args) : args[j].key # found'.key
        /\ found'.data = <<>>
  /\ UNCHANGED <<holds, args>>

AlNext == Begin \/ Add \/ Answer \/ Find

AlSpec == AlInit /\ [][AlNext]_alVars

=============================================================================
