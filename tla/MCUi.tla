-------------------------------- MODULE MCUi --------------------------------
(* Small instances of the web UI database and its clients.                  *)
EXTENDS UiDatabase

A == {<<"a1">>, <<"a2">>}
T == {<<"p", "t1">>, <<"p", "t2">>}
Addresses == {"i1", "i2"}
Address == [r \in A \cup T |-> IF r \in {<<"a1">>, <<"p", "t1">>} THEN "i1" ELSE "i2"]
Columns == [a \in A |-> IF a = <<"a1">> THEN {"c"} ELSE {"c", "d"}]
Parameters == [t \in T |-> {"x"}]
W == {<<"w1">>, <<"w2">>}
U == 0..2
E == {"first", "second", "admin@openeuler.org"}

Alone == [analyses |-> {}, passes |-> 1, lines |-> 0, ends |-> {"ok"}, tunings |-> {}, viewer |-> FALSE,
          webs |-> {}, requests |-> 0, routes |-> {}, ips |-> {"i1"}]
Loads == {
    [Alone EXCEPT !.analyses = A, !.ends = {"fail"}, !.ips = Addresses],
    [Alone EXCEPT !.analyses = {<<"a1">>}, !.lines = 2, !.viewer = TRUE],
    [Alone EXCEPT !.analyses = {<<"a1">>}, !.passes = 2, !.ends = {"ok", "fail"}],
    [Alone EXCEPT !.analyses = {<<"a1">>}, !.ends = {"fail"}, !.tunings = {<<"p", "t1">>}],
    [Alone EXCEPT !.analyses = {<<"a1">>}, !.webs = {<<"w1">>}, !.requests = 1,
                  !.routes = {"runs"}],
    [Alone EXCEPT !.tunings = T],
    [Alone EXCEPT !.tunings = {<<"p", "t1">>}, !.webs = W, !.requests = 2,
                  !.routes = {"runs"}],
    [Alone EXCEPT !.webs = W, !.requests = 2, !.routes = {"user"}]}
=============================================================================
