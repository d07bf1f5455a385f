----------------------------- MODULE ServerConfig -----------------------------
(***************************************************************************)
(* How the server takes over what settings.cfg says (server_config.c):     *)
(* getConfigs corrects, at the start, what updateEpoch takes as it is,     *)
(* every ten seconds.                                                      *)
(***************************************************************************)
EXTENDS Integers

MinThreads == 1    \* MIN_THREADS
MaxThreads == 20   \* MAX_THREADS

\* isValidThreadNum
ValidThreadNum(n) == n >= MinThreads /\ n <= MaxThreads

\* getConfigs
StartThreads(setting) ==
  IF ValidThreadNum(setting) THEN setting ELSE MinThreads
\* a slip: zero is let through
StartGroupZero(setting) == IF setting < 0 THEN 1 ELSE setting
StartGroup(setting) == IF setting <= 0 THEN 1 ELSE setting

\* updateEpoch
NewGroup(setting) == setting
=============================================================================
