------------------------ MODULE MCSessionAcceptance ------------------------
EXTENDS SessionAcceptance

MCNoKey == <<>>

MCValues(service) ==
    [f \in StringFields \cup SetFields |->
        IF f \in SetFields THEN <<>> ELSE IF f = "service" THEN service ELSE ""]

MCPolicy == [mode |-> "required", setMode |-> "", require |-> {"L3"}, expected |-> MCValues("a")]
MCDisabled == [MCPolicy EXCEPT !.mode = "", !.require = {}]

Grant(service, exp) ==
    [issuer |-> "m", issuerKey |-> "km", audience |-> "a", grantHash |-> "g",
     values |-> MCValues(service), confirmationKey |-> "k", endpointKeys |-> <<>>,
     iat |-> 1, exp |-> exp]

Statement(exporter, nonce, iat, exp) ==
    [grantHash |-> "g", audience |-> "a", signer |-> "k",
     binding |-> [leaf |-> "l", exporter |-> exporter, context |-> "c", binder |-> "",
                  nonce |-> nonce, iat |-> iat, exp |-> exp]]

Session(leaf, attested) ==
    [leaf |-> leaf, context |-> "c", exporter |-> "x", binder |-> "", attested |-> attested]

Of(path, cache, jwtOK, grant, statement, session) ==
    [policy |-> MCPolicy, path |-> path, cache |-> cache, jwtOK |-> jwtOK, grant |-> grant,
     statement |-> statement, session |-> session]

\* Statements with one nonce in several lifetimes, on both paths, one of them
\* issued while the attempts are under way; a grant for
\* another service; a statement for another session; a token that does not
\* verify; a direct attempt without a replay cache; a disabled policy.
MCEvidence ==
    {Of(t[1], TRUE, TRUE, Grant("a", 3), Statement("x", "n", t[2], t[3]), Session("l", FALSE)) :
        t \in {<<"callback", 1, 2>>, <<"callback", 1, 3>>, <<"callback", 2, 3>>,
               <<"direct", 1, 2>>, <<"direct", 2, 2>>}}
    \cup {Of("callback", TRUE, TRUE, Grant("b", 3), Statement("x", "n", 1, 3), Session("l", FALSE)),
          Of("callback", TRUE, FALSE, Grant("a", 3), Statement("x", "n", 1, 3), Session("l", FALSE)),
          Of("direct", FALSE, TRUE, Grant("a", 3), Statement("x", "n", 1, 3), Session("l", FALSE)),
          Of("direct", TRUE, TRUE, Grant("a", 3), Statement("y", "n", 1, 3), Session("l", TRUE)),
          Of("direct", TRUE, TRUE, Grant("a", 3), Statement("x", "n", 1, 3), Session("", FALSE)),
          [Of("direct", TRUE, TRUE, Grant("a", 3), Statement("x", "n", 1, 3), Session("l", FALSE))
             EXCEPT !.policy = MCDisabled]}
=============================================================================
