---------------------------- MODULE MCDevnetCycle ----------------------------
(* The scripts of DevnetTools on small instances: names with slashes and dots, *)
(* contents on both sides of what an archive can hold.                        *)
EXTENDS DevnetTools

\* a, /a, aa, \aa, a/a and ..
MCRawNames ==
  {<<"a">>, <<"/", "a">>, <<"a", "a">>, <<"\\", "a", "a">>, <<"a", "/", "a">>, <<".", ".">>}
MCContents == {<<0, 2>>, <<5, 7>>, <<9, 4>>, <<160, 165>>, <<168, 3>>}
=============================================================================
