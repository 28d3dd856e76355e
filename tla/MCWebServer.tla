---------------------------- MODULE MCWebServer ----------------------------
(* Two clients share two descriptors; each may split its request in two.   *)
EXTENDS WebServer
CONSTANTS c1, c2
MCClients == {c1, c2}
MCFds == 5 .. 6
MCFiles == {<<97>>, <<37, 52, 49>>, <<228, 32>>}    \* "a", "%41", not ASCII
MCSpecial == {<<37>>}                               \* "%"
MCNowhere == <<65>>                                 \* "A", which is %41
=============================================================================
