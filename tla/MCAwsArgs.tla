----------------------------- MODULE MCAwsArgs -----------------------------
(***************************************************************************)
(* Checks the scripts' start-up over every argument list of bounded length *)
(* and both states of awsKeys.py.  The variables hold the input and never  *)
(* change.                                                                 *)
(***************************************************************************)
EXTENDS AwsArgs

CONSTANT MaxArgs

VARIABLES argv, keysFile

Inputs == UNION {[1 .. n -> Tokens] : n \in 0 .. MaxArgs}

Init == argv \in Inputs /\ keysFile \in BOOLEAN
Next == UNCHANGED <<argv, keysFile>>
Spec == Init /\ [][Next]_<<argv, keysFile>>

\* A script that fetchArgs lets through (it returned 0) can read its keys:
\* user_profiles[0] never meets None.  printsHelp advertises
\* "-a <Access Key> -s <Secret Key>" as one of the two ways to start.
AcceptedArgsHaveProfiles == ScriptStart(argv, keysFile) # "typeerror"

=============================================================================
