------------------------------- MODULE MCChat -------------------------------
(* A contact that is on both hosts and a second one on the second host,    *)
(* which is killed as a whole: announcements and answers cross, and a user *)
(* may be present on two hosts at once.                                    *)
EXTENDS Chat
CONSTANTS a, b, h1, h2
MCWindows == {<<h1, a>>, <<h2, b>>, <<h2, a>>}
=============================================================================
