---------------------------- MODULE MCTerminalApp ----------------------------
(* Two accounts whose names begin alike, words of every kind, one or two     *)
(* messages; texts of three characters, and the days from 1970 to 2106.      *)
EXTENDS TerminalApp
MCPorts == {1024, 65535}
MCAccounts == {"ab", "ac"}
MCSpelling == ("" :> <<>>) @@ ("a" :> <<"a">>) @@ ("ab" :> <<"a", "b">>) @@ ("ac" :> <<"a", "c">>) @@ ("b" :> <<"b">>)
MCNumbers == ("0" :> 0) @@ ("1" :> 1) @@ ("501" :> 501)
MCWords == {"help", "version", "account", "add", "list", "remove", "sync", "inbox", "doctor", "-h", "--limit", "", "a", "ab", "0", "1", "501"}
Texts == UNION {[1..n -> {"x", "\n", "escape", "bidi"}] : n \in 0..3}
Envelope(from, subject, unread, received) == [from |-> from, subject |-> subject, unread |-> unread, received |-> received]
MCInboxes ==
    {<<>>, <<Envelope(<<"x">>, <<>>, TRUE, 86400), Envelope(<<"x", "x", "x">>, <<"x">>, FALSE, 60)>>}
      \cup {<<Envelope(f, s, TRUE, 0)>> : f \in Texts, s \in {<<"x", "\n">>, <<"escape", "x">>, <<"bidi">>}}
=============================================================================
