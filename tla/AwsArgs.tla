------------------------------ MODULE AwsArgs ------------------------------
(***************************************************************************)
(* Command-line handling of the S3 scripts: KurmaAWSTestLib.fetchArgs(argv) *)
(* and what every script of AWS_latency does with its result:              *)
(*                                                                         *)
(*     ret = KurmaAWSTestLib.fetchArgs(argv)                               *)
(*     if (ret == -1): sys.exit(2)                                         *)
(*     ... KurmaAWSTestLib.user_profiles[0]['access'] ...                  *)
(*                                                                         *)
(* An argument is a token: one of the option spellings fetchArgs knows, an *)
(* unknown option "-x", or a plain word "v" (a key, a file name).  Whether *)
(* awsKeys.py can be imported is a separate input.                         *)
(***************************************************************************)
EXTENDS Naturals, Sequences, SequencesExt

Tokens == {"-a", "-s", "-h", "-i", "--access-key", "--secret-key", "--ifile",
           "-x", "v"}

\* getopt.getopt(argv, "a:s:h:i", ["access-key=", "secret-key=", "ifile="]):
\* the options that take a value, and the one that does not.
TakesValue == {"-a", "-s", "-h", "--access-key", "--secret-key", "--ifile"}
NoValue    == {"-i"}

\* getopt.getopt: scans options until the first non-option word; an option
\* that takes a value consumes the next token whatever it is; an unknown
\* option, or a missing value, raises GetoptError (ok = FALSE).
RECURSIVE GetOpt(_)
GetOpt(args) ==
    IF args = <<>> \/ Head(args) = "v" THEN [ok |-> TRUE, opts |-> <<>>]
    ELSE LET o    == Head(args)
             more == IF o \in TakesValue THEN 2 ELSE 1
         IN  IF \/ o \notin NoValue \cup TakesValue
                \/ Len(args) < more
               THEN [ok |-> FALSE, opts |-> <<>>]
               ELSE LET rest == GetOpt(SubSeq(args, more + 1, Len(args)))
                    IN  [rest EXCEPT !.opts = <<o>> \o @]

\* The module globals fetchArgs sets, and how it ends: "running" while it
\* goes through the options, "help" after sys.exit() on -h.
ArgsInit == [exit |-> "running", has_incore_params |-> FALSE,
             user_profiles |-> FALSE]

\* One iteration of `for opt, arg in opts`, with keys telling whether
\* `import awsKeys` succeeds.  An ImportError is printed and ignored.
ApplyOpt(keys, st, o) ==
      CASE st.exit # "running"             -> st
        [] o = "-h"                        -> [st EXCEPT !.exit = "help"]
        [] o \in {"-i", "--ifile"} /\ keys -> [st EXCEPT !.has_incore_params = TRUE,
                                                          !.user_profiles = TRUE]
        [] o \in {"-i", "--ifile"}         -> st
        [] o \in {"-a", "--access-key"}    -> [st EXCEPT !.has_incore_params = TRUE]
        [] OTHER                           -> st   \* -s: only secret_key

\* How a script ends after fetchArgs(argv):
\*   "usage"     printsHelp and sys.exit(2): GetoptError, or fetchArgs -1;
\*   "help"      sys.exit() after -h;
\*   "typeerror" fetchArgs returned 0 but user_profiles is still None;
\*   "runs"      the script connects with user_profiles[0].
ScriptStart(args, keys) ==
    LET parsed == GetOpt(args) IN
    IF ~parsed.ok THEN "usage"
    ELSE LET st == FoldLeft(LAMBDA x, o : ApplyOpt(keys, x, o), ArgsInit,
                            parsed.opts) IN
         CASE st.exit = "help"        -> "help"
           [] ~st.has_incore_params   -> "usage"
           [] ~st.user_profiles       -> "typeerror"
           [] OTHER                   -> "runs"

=============================================================================
