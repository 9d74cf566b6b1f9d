----------------------------- MODULE MCCrashStore -----------------------------
(* An instance of CrashStore for TLC: two campaigns, two rounds each.        *)
EXTENDS CrashStore

MCLower(c) == IF c = "A" THEN "a" ELSE c
MCTexts == {<<"a", "(", ")">>, <<"A", "_">>, <<"/">>}
================================================================================
