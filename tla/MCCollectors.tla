----------------------------- MODULE MCCollectors -----------------------------
(***************************************************************************)
(* Collectors for TLC: small inputs that reach the cases the parts tell     *)
(* apart.  The values that are numbers or plain names are in the cfg.       *)
(***************************************************************************)
EXTENDS Collectors

Entry(pri, comm, msg, usec) == [pri |-> pri, comm |-> comm, msg |-> msg, usec |-> usec]

MCEntries ==
    {Entry({3}, "sshd", "m1", 1), Entry({2}, "sshd", "m2", 2), Entry({}, "sshd", "m3", 3),
     Entry({6}, "cron", "m1", 1), Entry({3}, "cron", "m3", 2)}

MCMasked == [m1 |-> "m", m2 |-> "m", m3 |-> "n"]

MCProbes == <<"https://a", "https://b">>
MCHops == <<"a", "b", "c">>

Endpoint(host, port) == [host |-> host, port |-> port]
MCEndpoints == <<Endpoint("a", {}), Endpoint("b", {0}), Endpoint("c", {70000})>>
MCLifetimes == {-1, 7, 30, 31}

Span(trace, id, parentId, service, start, end, error) ==
    [trace |-> trace, id |-> id, parent |-> parentId, service |-> service,
     start |-> start, end |-> end, error |-> error]

Request(length, list, ok) == [length |-> length, spans |-> list, ok |-> ok]

\* A root with a call to another service, a late span of it, a trace of its
\* own whose clock went back, an empty body and one that does not parse.
MCRequests ==
    {Request(2, <<Span("t1", "a", "", "web", 1, 5, FALSE),
                  Span("t1", "b", "a", "db", 2, 4, TRUE)>>, TRUE),
     Request(1, <<Span("t2", "c", "", "db", 3, 2, FALSE)>>, TRUE),
     Request(0, <<>>, TRUE), Request(1, <<>>, FALSE)}

Line(kind, key, values, scale) ==
    [kind |-> kind, key |-> key, values |-> values, scale |-> scale]

MCLines ==
    {Line("counter", "a", <<1, 2>>, 2), Line("timer", "a", <<3>>, 1),
     Line("timer", "b", <<3>>, 1), Line("gauge", "b", <<2, 4>>, 2),
     Line("timer", "d", <<2, 4>>, 2), Line("timer", "d", <<3>>, 1),
     Line("set", "c", <<2, 5>>, 1), Line("set", "c", <<5>>, 1),
     Line("event", "", <<>>, 1), Line("check", "", <<>>, 1), Line("bad", "", <<>>, 1)}

File(name, deleted) == [file |-> name, deleted |-> deleted]

MCLoaded ==
    {<<File("x", FALSE), File("y", FALSE), File("z", FALSE)>>,
     <<File("x", TRUE), File("y", FALSE)>>, <<File("x", FALSE)>>}

MCPackageOf == [x |-> "libx", y |-> "liby", z |-> ""]

MCTimes == 0..4
MCBurn == <<1, 2, 3>>
MCRaw == {-1, 0, 1, 120, 100000000}
MCPids == 1..5
MCStampTimes == 0..2
MCLower == [ERROR |-> "error"]

Text(text) == [text |-> text, nums |-> <<>>]
Timed(text, nums) == [text |-> text, nums |-> nums]
Login(user, ip) == [user |-> user, ip |-> ip]
Message(parses, secret, cards, auth) ==
    [parses |-> parses, secrets |-> secret, cards |-> cards, auth |-> auth]

\* Failed logins of two users, one of them unknown; a JSON line whose code is
\* in its second field; a web server's line that also has the form of logfmt,
\* with a card that is one and one that is none.
MCMessages ==
    {Message(<<>>, <<>>, <<>>, [failed_password |-> Login("u", "a"), pam |-> Login("", "a")]),
     Message(<<>>, <<>>, <<>>, [failed_password |-> Login("v", "a"), invalid_user |-> Login("v", "a")]),
     Message([json |-> Text([level |-> "warn"])], <<>>, <<>>,
             [invalid_user |-> Login("v", "a"), accepted |-> Login("v", "a")]),
     Message([json |-> Timed([level |-> "ERROR", code |-> "-", status |-> "500"], [ms |-> 2000])],
             <<<<"email", "e1">>, <<"jwt", "j1">>>>, <<>>, [pam |-> Login("", "")]),
     Message([logfmt |-> Timed([level |-> "error", path |-> "", url |-> "/x"], [duration |-> 3]),
              nginx |-> Text([code |-> "200"])],
             <<<<"jwt", "j2">>>>,
             <<[sample |-> "c1", digits |-> <<4>> \o [i \in 1..15 |-> 1]],
               [sample |-> "c2", digits |-> <<4>> \o [i \in 1..14 |-> 1] \o <<2>>]>>,
             [pam |-> Login("", "a")])}
=============================================================================
