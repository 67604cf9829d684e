----------------------------- MODULE SessionPage -----------------------------
(***************************************************************************)
(* App.tsx, the routes it guards, the store of the session and the pages      *)
(* that begin one.  Users are Projects, tokens items: a token is issued to    *)
(* ProjectOf of it.  The token is kept twice, in the store, which is written  *)
(* to the browser, and under a key of its own that every request reads.       *)
(***************************************************************************)
EXTENDS Spa

\* "app" stands for the pages for everyone, "admin" for those of administrators.
Paths == {"login", "register", "activate", "app", "admin"}

Admin == CHOOSE u \in Projects : TRUE

Session == [token : Items \cup {None}, kept : Items \cup {None},
            user : Projects \cup {None}, authed : BOOLEAN, demo : BOOLEAN,
            checked : BOOLEAN, signing : BOOLEAN]

\* With the address, and the form of the mounted page.
SessionUi == [path : Paths, session : Session, busy : BOOLEAN, error : BOOLEAN]

\* A call carries the token that was kept when it was sent; "why" tells what the
\* profile is asked for, and "live" that the form that waits is still mounted.
Carrying(why, token) == [why |-> why, token |-> token, live |-> TRUE]

Fresh(path, token, kept, demo) ==
  [path |-> path, busy |-> FALSE, error |-> FALSE,
   session |-> [token |-> token, kept |-> kept, user |-> None, authed |-> FALSE,
                demo |-> demo, checked |-> FALSE, signing |-> FALSE]]

\* Opening the address runs bootstrapDemo.
SessionInit(path, token, demo) ==
  /\ page = "session"
  /\ db = [demo |-> demo, issued |-> {token} \ {None}, valid |-> {token} \ {None}]
  /\ ui = Fresh(path, token, token, FALSE)
  /\ calls = {Request("demoStatus", None, Carrying("demo", token), {})}

\* The tree of routes is not mounted while App waits.
Waiting(u) ==
  \/ ~u.session.checked
  \/ u.session.token # None /\ ~u.session.authed /\ u.session.user = None

\* Where PublicRoute, ProtectedRoute and AdminRoute lead to.
Led(u) ==
  LET s == u.session
      open == s.demo \/ s.authed
  IN  IF Waiting(u) THEN u.path
      ELSE IF u.path \in {"login", "register"} /\ open THEN "app"
      ELSE IF u.path \in {"app", "admin"} /\ ~open /\ s.token = None THEN "login"
      ELSE IF u.path = "admin" /\ s.user \notin {None, Admin} THEN "app"
      ELSE u.path

\* A page is rendered for the session it finds; a form that goes away forgets
\* what it waits for.
Render(u, others) ==
  IF Led(u) = ui.path /\ ~Waiting(u)
  THEN ui' = u /\ calls' = others
  ELSE /\ ui' = [u EXCEPT !.path = Led(u), !.busy = FALSE, !.error = FALSE]
       /\ calls' = {[c EXCEPT !.arg.live = FALSE] : c \in others}

Overlapping(others) == clash' = (clash \/ others # {})

\* What goes on with another call, beside "others".
Further(u, op, on, arg, others) ==
  Render(u, others \cup {Request(op, on, arg, others)}) /\ Overlapping(others)

\* validateToken; the store's token is kept again.
Validate(u, why, others) ==
  Further([u EXCEPT !.session.kept = u.session.token], "me", None,
       Carrying(why, u.session.token), others)

\* The end of bootstrapDemo, and what App does then.
Bootstrapped(u, others) ==
  LET v == [u EXCEPT !.session.checked = TRUE]
  IN  IF v.session.token # None /\ v.session.user = None
      THEN Validate(v, "validate", others)
      ELSE Render(v, others) /\ UNCHANGED clash

DemoStatusKnown(c) ==
  LET others == calls \ {c}
      u      == IF c.stage = "ok" THEN [ui EXCEPT !.session.demo = c.ans.demo] ELSE ui
  IN  /\ IF c.stage = "ok" /\ c.ans.demo /\ ui.session.token = None
         THEN Further(ui, "demoLogin", None, Carrying("demo", None), others)
         ELSE Bootstrapped(u, others)
      /\ Handling

SignedIn(u, token) ==
  [u EXCEPT !.session.token = token, !.session.kept = token, !.session.authed = TRUE]

DemoLoggedIn(c) ==
  LET others == calls \ {c}
      u      == [ui EXCEPT !.session.demo = TRUE]
  IN  /\ IF c.stage = "failed" THEN Bootstrapped(u, others)
         ELSE Further(SignedIn(u, c.ans.token), "me", None, Carrying("demo", c.ans.token), others)
      /\ Handling

\* 401
Denied(c) == c.stage = "ok" /\ c.ans.token = None

SignedOut(u) ==
  [u EXCEPT !.session.token = None, !.session.authed = FALSE, !.session.user = None]

\* The catch of login; the one of validateToken also forgets the kept token.
LoginLost(u, c) ==
  [u EXCEPT !.session.token = None, !.session.authed = FALSE, !.session.signing = FALSE,
            !.busy = IF c.arg.live THEN FALSE ELSE @,
            !.error = IF c.arg.live THEN TRUE ELSE @]

\* Mutant: a token that was refused stays in the store.
LostInStore(u, c) ==
  CASE c.arg.why \in {"login", "register"} -> LoginLost(u, c)
    [] c.arg.why = "validate" -> [u EXCEPT !.session.kept = None]
    [] c.arg.why = "activate" -> [u EXCEPT !.session.kept = None, !.path = "app"]
    [] OTHER -> u

Lost(u, c) ==
  CASE c.arg.why \in {"login", "register"} -> LoginLost(u, c)
    [] c.arg.why \in {"validate", "activate"} ->
         [SignedOut(u) EXCEPT !.session.kept = None,
                              !.path = IF c.arg.why = "activate" THEN "app" ELSE @]
    [] OTHER -> u

\* The page is loaded again: what is written to the browser remains.
Reloaded(u, path) ==
  /\ ui' = Fresh(path, u.session.token, u.session.kept, u.session.demo)
  /\ calls' = {Request("demoStatus", None, Carrying("demo", u.session.kept), {})}
  /\ UNCHANGED clash

\* The interceptor drops the kept token and, but for the login page, loads it.
Intercepted(c, u) ==
  LET v == [u EXCEPT !.session.kept = None]
  IN  IF ui.path # "login" THEN Reloaded(v, "login")
      ELSE IF c.arg.why = "demo" THEN Bootstrapped(v, calls \ {c})
      ELSE Render(v, calls \ {c}) /\ UNCHANGED clash

Known(u, c) ==
  LET v == [u EXCEPT !.session.user = c.ans.user]
  IN  CASE c.arg.why \in {"login", "register"} ->
             [v EXCEPT !.session.signing = FALSE, !.path = "app"]
        [] c.arg.why = "validate" -> [v EXCEPT !.session.authed = TRUE]
        [] c.arg.why = "activate" -> [v EXCEPT !.session.authed = TRUE, !.path = "app"]
        [] OTHER -> v

\* The profile comes, or does not.
ProfileKnown(c) ==
  LET others == calls \ {c}
      u      == IF c.stage = "ok" /\ ~Denied(c) THEN Known(ui, c) ELSE Lost(ui, c)
  IN  /\ IF Denied(c) THEN Intercepted(c, u)
         ELSE IF c.arg.why = "demo" THEN Bootstrapped(u, others)
         ELSE Render(u, others) /\ UNCHANGED clash
      /\ Handling

OnScreen(path) == ui.path = path /\ ~Waiting(ui)

\* LoginPage; the button is disabled while the store signs in.
SubmitLogin(user, right) ==
  /\ OnScreen("login") /\ ~ui.session.signing
  /\ Further([ui EXCEPT !.error = FALSE, !.session.signing = TRUE], "login",
          IF right THEN user ELSE None, Carrying("login", ui.session.kept), calls)
  /\ Calling

LoginAnswered(c) ==
  LET others == calls \ {c}
  IN  /\ CASE Denied(c) -> Intercepted(c, LoginLost(ui, c))
           [] c.stage = "failed" -> Render(LoginLost(ui, c), others) /\ UNCHANGED clash
           [] OTHER -> Further(SignedIn(ui, c.ans.token), "me", None,
                            [c.arg EXCEPT !.token = c.ans.token], others)
      /\ Handling

SubmitRegister(user) ==
  /\ OnScreen("register") /\ ~ui.busy
  /\ Further([ui EXCEPT !.error = FALSE, !.busy = TRUE], "register", user,
          Carrying("register", ui.session.kept), calls)
  /\ Calling

\* Registered, the user is signed in.
Registered(c) ==
  LET others == calls \ {c}
  IN  /\ IF c.stage = "failed"
         THEN /\ Render([ui EXCEPT !.busy = @ /\ ~c.arg.live, !.error = @ \/ c.arg.live], others)
              /\ UNCHANGED clash
         ELSE Further([ui EXCEPT !.session.signing = TRUE], "login", c.on, c.arg, others)
      /\ Handling

SubmitActivate(user) ==
  /\ OnScreen("activate") /\ ~ui.busy
  /\ Further([ui EXCEPT !.error = FALSE, !.busy = TRUE], "activate", user,
          Carrying("activate", ui.session.kept), calls)
  /\ Calling

Activated(c) ==
  LET others == calls \ {c}
  IN  /\ IF c.stage = "failed"
         THEN /\ Render([ui EXCEPT !.busy = @ /\ ~c.arg.live, !.error = @ \/ c.arg.live], others)
              /\ UNCHANGED clash
         ELSE Further(SignedIn(ui, c.ans.token), "me", None,
                   [c.arg EXCEPT !.token = c.ans.token], others)
      /\ Handling

\* The links between the three pages.
FollowLink(path) ==
  /\ ~Waiting(ui) /\ <<ui.path, path>> \in
       {<<"login", "register">>, <<"register", "login">>, <<"activate", "login">>}
  /\ Render([ui EXCEPT !.path = path], calls) /\ UNCHANGED clash /\ Calling

OpenAddress(path) == Reloaded(ui, path) /\ Calling

Inside == (OnScreen("app") \/ OnScreen("admin")) /\ ui.session.token # None

\* handleLogout: the kept token is gone when the request reads it.
SignOut ==
  LET u == [SignedOut(ui) EXCEPT !.session.kept = None, !.path = "login"]
  IN  /\ Inside
      /\ Further(u, "logout", None, Carrying("logout", u.session.kept), calls) /\ Calling

\* Any call a page makes.
UseApp == Inside /\ Further(ui, "use", None, Carrying("use", ui.session.kept), calls) /\ Calling

Used(c) ==
  /\ IF Denied(c) THEN Intercepted(c, ui) ELSE Render(ui, calls \ {c}) /\ UNCHANGED clash
  /\ Handling

----------------------------------------------------------------------------

\* A token is valid until it expires or is revoked.
TokenExpires(token) ==
  /\ token \in db.valid /\ db' = [db EXCEPT !.valid = @ \ {token}]
  /\ Click /\ UNCHANGED <<page, ui, calls, faults, clash>>

Issued(token) == Outcome([db EXCEPT !.issued = @ \cup {token}, !.valid = @ \cup {token}],
                         [token |-> token, user |-> None])

Unauthorized == Outcome(db, [token |-> None, user |-> None])

SessionServer(c) ==
  \/ c.op = "demoStatus" /\ Serve(c, Outcome(db, [demo |-> db.demo]))
  \/ /\ c.op = "demoLogin"
     /\ \E t \in Items \ db.issued : ProjectOf[t] # Admin /\ Serve(c, Issued(t))
  \/ /\ c.op \in {"login", "activate"}
     /\ IF c.on = None THEN Serve(c, Unauthorized)
        ELSE \E t \in Items \ db.issued : ProjectOf[t] = c.on /\ Serve(c, Issued(t))
  \/ c.op = "register" /\ Serve(c, Outcome(db, Ok))
  \/ /\ c.op \in {"me", "use"}
     /\ Serve(c, IF c.arg.token \notin db.valid THEN Unauthorized
                 ELSE Outcome(db, [token |-> c.arg.token, user |-> ProjectOf[c.arg.token]]))
  \/ /\ c.op = "logout"
     /\ Serve(c, IF c.arg.token = None THEN Unauthorized
                 ELSE Outcome([db EXCEPT !.valid = @ \ {c.arg.token}],
                              [token |-> c.arg.token, user |-> None]))

\* However it went: one session, known to the store and to the requests.
SessionFollows ==
  LET s == ui.session
  IN  /\ s.authed = (s.token # None) /\ s.kept = s.token
      /\ s.user = IF s.token = None THEN None ELSE ProjectOf[s.token]

SessionClicks ==
  \/ \E u \in Projects : \/ \E right \in BOOLEAN : SubmitLogin(u, right)
                         \/ SubmitRegister(u) \/ SubmitActivate(u)
  \/ \E path \in Paths : FollowLink(path) \/ OpenAddress(path)
  \/ \E t \in Items : TokenExpires(t)
  \/ SignOut \/ UseApp

SessionAnswers ==
  \/ \E c \in Settled("demoStatus") : DemoStatusKnown(c)
  \/ \E c \in Settled("demoLogin") : DemoLoggedIn(c)
  \/ \E c \in Settled("me") : ProfileKnown(c)
  \/ \E c \in Settled("login") : LoginAnswered(c)
  \/ \E c \in Settled("register") : Registered(c)
  \/ \E c \in Settled("activate") : Activated(c)
  \/ \E op \in {"use", "logout"} : \E c \in Settled(op) : Used(c)

SessionNext ==
  /\ page = "session"
  /\ \/ SessionClicks \/ SessionAnswers \/ \E c \in calls : SessionServer(c)

=============================================================================
