----------------------------- MODULE MCAppSession -----------------------------
(***************************************************************************)
(* Small instances of AppSession: one client with session s1, renewed as   *)
(* s2, and two people who sign in.  A behaviour makes the requests of one  *)
(* script, each once.                                                      *)
(***************************************************************************)
EXTENDS AppSession, TLC

CONSTANTS s1, s2, x, y, ann, ben,
          start, use, login, loginAgain, open, openAgain,
          annReturns, annReloads, benReturns, renew, end

Make(kind, state, person) ==
    [kind |-> kind, sid |-> s1, new |-> s2, state |-> state, person |-> person]

Catalogue ==
    start :> Make("start", x, ann)
    @@ use :> Make("use", x, ann)
    @@ login :> Make("login", x, ann) @@ loginAgain :> Make("login", y, ben)
    @@ open :> Make("open", x, ann) @@ openAgain :> Make("open", y, ben)
    @@ annReturns :> Make("callback", x, ann)
    @@ annReloads :> Make("callback", x, ann)
    @@ benReturns :> Make("callback", y, ben)
    @@ renew :> Make("renew", x, ann)
    @@ end :> Make("end", x, ann)

Calls == [r \in Requests |-> Catalogue[r]]

\* Two logins that race on one session; a login against the end of the session;
\* two logins, a renewal and an end, one after the other.
Races ==
    {[made |-> {start, login, loginAgain, open, openAgain, annReturns, annReloads,
                benReturns, renew, end}, width |-> 2, crash |-> TRUE],
     [made |-> {start, use, login, open, annReturns, renew, end},
      width |-> 3, crash |-> TRUE],
     [made |-> {start, use, login, open, annReturns, renew, end, benReturns,
                loginAgain, openAgain}, width |-> 1, crash |-> FALSE]}

EndRace == {[made |-> {start, use, login, open, annReturns, end},
             width |-> 2, crash |-> FALSE]}
=============================================================================
