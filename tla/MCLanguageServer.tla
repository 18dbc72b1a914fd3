-------------------------- MODULE MCLanguageServer --------------------------
EXTENDS LanguageServer, FiniteSets, TLC
(* s1 and s2 differ in presentation only; s3 also scores differently.       *)
CONSTANTS u2, s1, s2, s3, h1, h2
MCHealthOf == (s1 :> h1 @@ s2 :> h1 @@ s3 :> h2)
(* Nothing in u2 can be analysed, where there is a u2.                      *)
MCBroken == {u2} \X Texts
MCEntryIds == 1 .. Cardinality(Actors) + Cardinality(Uris)

(* Nothing the server does reads back what it sent: properties that do not  *)
(* speak of it are checked on the states without it, those that ask whether *)
(* anything is shown on those that tell no more than that.                  *)
Unsent == <<editVars, cacheVars, docVars, job, todo, lifeVars, {u \in Uris : diags[u] # Cleared}>>
=============================================================================
