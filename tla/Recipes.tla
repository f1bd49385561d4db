------------------------------- MODULE Recipes -------------------------------
(***************************************************************************)
(* The recipes' __main__ blocks: each finds the repository root (the       *)
(* directory holding .dory-root), puts conan/invoker on sys.path and calls *)
(* invoker.run with its flags.  A recipe's flags are the record Driver's   *)
(* `recipe` ranges over.                                                   *)
(***************************************************************************)

Flags(dn, b, t, e, o) ==
  [doNothing |-> dn, buildable |-> b, tidyable |-> t, exportable |-> e,
   outOfTree |-> o]

\* The keyword defaults of invoker.run.
RunDefaults == Flags(FALSE, TRUE, TRUE, FALSE, FALSE)

\* Recipes that call invoker.run() with the defaults.
Crypto == RunDefaults
Conn == RunDefaults
Special == RunDefaults
Memstore == RunDefaults
Ctrl == RunDefaults
Extern == RunDefaults
UbftApps == RunDefaults

\* invoker.run(buildable=True, tidyable=False).
ThirdParty == [RunDefaults EXCEPT !.tidyable = FALSE]

\* invoker.run(doNothing=False, buildable=False, tidyable=False,
\* exportable=True): a prebuilt package that is only exported.
CrashConsensus == Flags(FALSE, FALSE, FALSE, TRUE, FALSE)

\* invoker.run(outOfTree=True): built without rebuilding dory packages.
CryptoBenchAdvanced == [RunDefaults EXCEPT !.outOfTree = TRUE]

RepositoryRecipes ==
  {Crypto, Conn, Special, Memstore, Ctrl, Extern, UbftApps, ThirdParty,
   CrashConsensus, CryptoBenchAdvanced}
=============================================================================
