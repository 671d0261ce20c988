------------------------------ MODULE MCWorker ------------------------------
(* One worker under six mixes of requests.                                 *)
EXTENDS Worker

CONSTANTS m1, m2

Route(checks, then) == [checks |-> checks, then |-> then]

SignUp == Route(<<<<"signup ip", 2>>>>, "mail")
ChangeEmail == Route(<<>>, "mail")
Verify == Route(<<<<"verify mail", 1>>, <<"verify ip", 2>>>>, "verify")
Chat == Route(<<<<"chat user", 2>>>>, "chat")
Search == Route(<<<<"search user", 2>>>>, "search")
Ann == [ip |-> "login ip", name |-> "login ann"]

MCRoutes == {SignUp, ChangeEmail, Verify, Chat, Search}
MCLogins == {Ann}
MCKeys == UNION {{r.checks[i][1] : i \in DOMAIN r.checks} : r \in MCRoutes}
          \cup {Ann.ip, Ann.name}

Mix(routes, logins, mails) == [routes |-> routes, logins |-> logins, mails |-> mails]
MCTraffics ==
  {Mix({ChangeEmail}, {}, {m1, m2}), Mix({SignUp}, {}, {m1}), Mix({Verify}, {}, {m1}),
   Mix({Chat}, {}, {}), Mix({Search}, {}, {}), Mix({}, {Ann}, {})}
=============================================================================
