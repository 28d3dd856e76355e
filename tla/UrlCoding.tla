----------------------------- MODULE UrlCoding -----------------------------
(***************************************************************************)
(* web_server/epoll_server.c: how the names in a listing become links, and *)
(* the path of a request a name.  A string is the sequence of its codes,   *)
(* without the NUL.  decode_str works in place; it never writes past what  *)
(* it has read, so its result is that of reading from a copy.              *)
(***************************************************************************)
EXTENDS Integers, Sequences, SequencesExt

Digit == 48 .. 57
UpperHex == 65 .. 70
LowerHex == 97 .. 102
Letter == 65 .. 90 \cup 97 .. 122
Plain == Digit \cup Letter \cup {47, 95, 46, 45, 126}       \* / _ . - ~

(* "%%%02x"                                                                *)
HexDigit(n) == IF n < 10 THEN 48 + n ELSE 87 + n
Escape(ch) == <<37, HexDigit(ch \div 16), HexDigit(ch % 16)>>

(* The loop ends when tosize does not leave room for one more escape.      *)
encode_str(tosize, from) ==
  FoldLeft(LAMBDA to, ch : IF Len(to) + 4 >= tosize THEN to
                           ELSE to \o IF ch \in Plain THEN <<ch>> ELSE Escape(ch),
           <<>>, from)

hexit(ch) == CASE ch \in Digit -> ch - 48
               [] ch \in LowerHex -> ch - 87
               [] ch \in UpperHex -> ch - 55
               [] OTHER -> 0

IsEscape(from, k) == /\ from[k] = 37 /\ k + 2 <= Len(from)
                     /\ {from[k + 1], from[k + 2]} \subseteq Digit \cup UpperHex \cup LowerHex

DecodeSkipsOne(from) ==                                            \* mutant
  LET tail[k \in 1 .. Len(from) + 1] ==
        IF k > Len(from) THEN <<>>
        ELSE IF IsEscape(from, k)
        THEN <<hexit(from[k + 1]) * 16 + hexit(from[k + 2])>> \o tail[k + 2]
        ELSE <<from[k]>> \o tail[k + 1]
  IN  tail[1]
decode_str(from) ==
  LET tail[k \in 1 .. Len(from) + 1] ==
        IF k > Len(from) THEN <<>>
        ELSE IF IsEscape(from, k)
        THEN <<hexit(from[k + 1]) * 16 + hexit(from[k + 2])>> \o tail[k + 3]
        ELSE <<from[k]>> \o tail[k + 1]
  IN  tail[1]
=============================================================================
