--------------------------- MODULE ViewerBrowser ----------------------------
(***************************************************************************)
(* One viewer's browser: its cookie vid, the page of a poll loaded and     *)
(* reloaded in one tab (frontend pages/ViewerPage.tsx, api.ts), and a      *)
(* network that breaks connections before or after the API has handled the *)
(* request. The routes of api/public.py decide who the viewer is and which *)
(* answers bring a cookie; the vote service behind them is atomic here, as *)
(* VotePath shows that it is to a viewer. Polls are not edited.            *)
(***************************************************************************)
EXTENDS VotingWindow, FiniteSets

CONSTANTS
    Poll,                   \* ids of questions
    PollRow,                \* the row of each question
    Page,                   \* loads of the page, each at most once
    VIEWER_COOKIE_MAX_AGE,  \* seconds (86400)
    MaxNow,                 \* bound on the clock
    MaxSent                 \* bound on the requests of the browser

ASSUME PollRowAssumption == PollRow \in [Poll -> Row]
ASSUME CookieAgeAssumption == VIEWER_COOKIE_MAX_AGE \in Nat
ASSUME BoundsAssumption == MaxNow \in Nat /\ MaxSent \in Nat

VARIABLES
    now,        \* the clock
    vid,        \* the cookie in the browser's jar: identity, 0 for none, and
    expires,    \* the instant at which it expires
    page,       \* the state of each page load (ViewerState), "left" after it
    url,        \* the question in the address of each page load
    awaits,     \* the request whose answer each page awaits, 0 for none
    sent,       \* number of requests sent so far, and name of the latest
    requests,   \* requests the API has not handled yet
    responses,  \* answers on their way
    fresh,      \* identities the API has made up so far (uuid4)
    dedup,      \* when the dedup key of <<poll, identity>> expires
    ballots     \* history: the counted votes, as requests that carry the
                \* identity they were counted for

browserVars == <<vid, expires, page, url, awaits, sent>>
serverVars == <<fresh, dedup, ballots>>
vars == <<now, browserVars, requests, responses, serverVars>>

PageState == {"idle", "loading", "ready", "submitting", "success", "message",
              "network", "left"}
Id == 1 .. MaxSent

WireRequest == [nr : Id, kind : {"form", "vote"}, poll : Poll, vid : {0} \cup Id]
Verdict == {"form", "accepted", "already_voted", "unavailable", "not_published",
            "window_not_started", "window_closed"}
\* cookie is the identity in Set-Cookie, 0 when the answer has none.
WireResponse == [nr : Id, result : Verdict, cookie : {0} \cup Id]

\* Every variable has its type.
TypeOK ==
    /\ now \in 0 .. MaxNow
    /\ vid \in {0} \cup Id /\ expires \in Nat
    /\ page \in [Page -> PageState]
    /\ url \in [Page -> Poll]
    /\ awaits \in [Page -> {0} \cup Id]
    /\ sent \in 0 .. MaxSent
    /\ requests \subseteq WireRequest
    /\ responses \subseteq WireResponse
    /\ fresh \in 0 .. MaxSent
    /\ dedup \in [Poll \X Id -> Nat]
    /\ ballots \subseteq WireRequest

Init ==
    /\ now = 0
    /\ vid = 0 /\ expires = 0
    /\ page = [p \in Page |-> "idle"]
    /\ url \in [Page -> Poll]
    /\ awaits = [p \in Page |-> 0]
    /\ sent = 0
    /\ requests = {} /\ responses = {}
    /\ fresh = 0
    /\ dedup = [k \in Poll \X Id |-> 0]
    /\ ballots = {}

-----------------------------------------------------------------------------
\* The browser

\* The cookie that goes with a request: none once it has expired.
Cookie == IF now < expires THEN vid ELSE 0

\* fetch: the request leaves with the cookie of this moment.
Fetch(p, kind) ==
    /\ sent < MaxSent
    /\ sent' = sent + 1
    /\ awaits' = [awaits EXCEPT ![p] = sent + 1]
    /\ requests' = requests \cup
            {[nr |-> sent + 1, kind |-> kind, poll |-> url[p], vid |-> Cookie]}

\* Opening or reloading the page leaves the one that was in the tab; its
\* answers are not waited for any more.
OpenPage(p) ==
    /\ page[p] = "idle"
    /\ page' = [o \in Page |-> IF o = p THEN "loading"
                               ELSE IF page[o] = "idle" THEN "idle" ELSE "left"]
    /\ sent < MaxSent
    /\ sent' = sent + 1
    /\ awaits' = [o \in Page |-> IF o = p THEN sent + 1 ELSE 0]
    /\ requests' = requests \cup
            {[nr |-> sent + 1, kind |-> "form", poll |-> url[p], vid |-> Cookie]}
    /\ UNCHANGED <<now, vid, expires, url, responses, serverVars>>

\* submit: only from ready, so a double click sends one request.
Submit(p) ==
    /\ page[p] = "ready"
    /\ page' = [page EXCEPT ![p] = "submitting"]
    /\ Fetch(p, "vote")
    /\ UNCHANGED <<now, vid, expires, url, responses, serverVars>>

\* The button of the network error: back to the options.
Retry(p) ==
    /\ page[p] = "network"
    /\ page' = [page EXCEPT ![p] = "ready"]
    /\ UNCHANGED <<now, vid, expires, url, awaits, sent, requests, responses, serverVars>>

\* Mutant: the age is given in minutes where seconds are meant.
CookieExpiryInMinutes == now + SECOND * (VIEWER_COOKIE_MAX_AGE \div 60)

CookieExpiry == now + SECOND * VIEWER_COOKIE_MAX_AGE

\* Mutant: api.ts does not look at response.ok.
ShownUnchecked(result) == IF result = "form" THEN "ready" ELSE "success"

\* What the page shows: the form, the success or the text of the error.
Shown(result) == CASE result = "form" -> "ready"
                   [] result = "accepted" -> "success"
                   [] OTHER -> "message"

\* The headers of an answer arrive: the browser stores the cookie, if there is
\* one, whatever becomes of the body.
Receive(p, m, shown) ==
    /\ m.nr = awaits[p]
    /\ page' = [page EXCEPT ![p] = shown]
    /\ IF m.cookie = 0 THEN UNCHANGED <<vid, expires>>
       ELSE vid' = m.cookie /\ expires' = CookieExpiry
    /\ awaits' = [awaits EXCEPT ![p] = 0]
    /\ responses' = responses \ {m}
    /\ UNCHANGED <<now, url, sent, requests, serverVars>>

\* A whole answer arrives.
Deliver(p) == \E m \in responses : Receive(p, m, Shown(m.result))

\* What a page makes of a broken connection: the form has no retry, the vote
\* has.
Broken(state) == IF state = "loading" THEN "message" ELSE "network"

\* The connection breaks in the body: of a success, json() rejects as fetch
\* does; of an error, request() has a text of its own.
BreakInBody(p) ==
    \E m \in responses :
        Receive(p, m, IF Shown(m.result) = "message" THEN "message" ELSE Broken(page[p]))

\* Mutant: catch in submit only for ApiError.
BreakUncaught(p) ==
    /\ awaits[p] # 0
    /\ awaits' = [awaits EXCEPT ![p] = 0]
    /\ UNCHANGED <<now, vid, expires, page, url, sent, requests, responses, serverVars>>

\* fetch rejects: the connection broke, whether or not the API has had the
\* request or ever will.
Break(p) ==
    /\ awaits[p] # 0
    /\ page' = [page EXCEPT ![p] = Broken(page[p])]
    /\ awaits' = [awaits EXCEPT ![p] = 0]
    /\ UNCHANGED <<now, vid, expires, url, sent, requests, responses, serverVars>>

-----------------------------------------------------------------------------
\* The API

\* Mutant: the form's answer brings no cookie, only the vote's does.
RememberVoter(m, viewer, result) ==
    IF m.vid = 0 /\ result = "accepted" THEN viewer ELSE 0

\* _remember_viewer: a new identity goes out with a success, never with an
\* error.
RememberViewer(m, viewer, result) ==
    IF m.vid = 0 /\ result \in {"form", "accepted"} THEN viewer ELSE 0

\* _viewer_id: the cookie, or an identity just made up.
ViewerId(m) == IF m.vid # 0 THEN m.vid ELSE fresh + 1

Answer(m, result) ==
    /\ fresh' = IF m.vid = 0 THEN fresh + 1 ELSE fresh
    /\ requests' = requests \ {m}
    /\ responses' = responses \cup
            {[nr |-> m.nr, result |-> result,
              cookie |-> RememberViewer(m, ViewerId(m), result)]}
    /\ UNCHANGED <<now, browserVars>>

\* Mutant: the badge of the admin's page is taken for the verdict.
BadgeOf(m) == EffectiveStatus(PollRow[m.poll], now)

WindowOf(m) == RequireOpenVotingWindow(PollRow[m.poll], now)
Voted(m) == now < dedup[<<m.poll, ViewerId(m)>>]

\* A request that changes nothing: refused by the window or the dedup key, or
\* failed because a store did; and the form.
Refuse(m) ==
    /\ \/ Answer(m, "unavailable")
       \/ WindowOf(m) # "open" /\ Answer(m, WindowOf(m))
       \/ WindowOf(m) = "open" /\ Voted(m) /\ Answer(m, "already_voted")
       \/ WindowOf(m) = "open" /\ ~Voted(m) /\ m.kind = "form" /\ Answer(m, "form")
    /\ UNCHANGED <<dedup, ballots>>

\* A vote that is counted. When Redis's reply is lost, the handler fails, or
\* redis-py sends the script again and it finds the viewer's key.
Count(m) ==
    /\ m.kind = "vote"
    /\ WindowOf(m) = "open"
    /\ ~Voted(m)
    /\ dedup' = [dedup EXCEPT ![<<m.poll, ViewerId(m)>>] = now + SECOND *
            DedupTtl(CalculateClosingTime(PollRow[m.poll].show_time,
                                          PollRow[m.poll].duration_seconds), now)]
    /\ ballots' = ballots \cup {[m EXCEPT !.vid = ViewerId(m)]}
    /\ \/ Answer(m, "accepted")
       \/ Answer(m, "unavailable") \/ Answer(m, "already_voted")

Handle == \E m \in requests : Refuse(m) \/ Count(m)

-----------------------------------------------------------------------------
Tick ==
    /\ now < MaxNow
    /\ now' = now + 1
    /\ UNCHANGED <<browserVars, requests, responses, serverVars>>

Next ==
    \/ \E p \in Page : OpenPage(p) \/ Submit(p) \/ Retry(p) \/ Deliver(p) \/ BreakInBody(p)
                      \/ Break(p)
    \/ Handle
    \/ Tick

Spec == Init /\ [][Next]_vars

\* A connection over which no answer comes breaks some day, by itself or by
\* TCP, and the event loop delivers what has come. Nothing is assumed of the
\* viewer, of time, or of the API.
Fairness == \A p \in Page : WF_vars(Deliver(p) \/ BreakInBody(p) \/ Break(p))

FairSpec == Spec /\ Fairness

-----------------------------------------------------------------------------
\* Properties

Votes(q) == {m \in ballots : m.poll = q}

\* docs/01-specification.md:14-15: a browser votes on a question once. It is
\* one tab with an ordinary cookie jar; broken connections, answers that come
\* after the page was left, retries and reloads give it no second vote.
OneVotePerBrowser == \A q \in Poll : Cardinality(Votes(q)) <= 1

\* As long as a second vote would be let in by the window, the browser still
\* has the identity that voted.
VoterRemembered ==
    \A q \in Poll : \A m \in Votes(q) :
        RequireOpenVotingWindow(PollRow[q], now) = "open" =>
            Cookie = m.vid /\ Cookie # 0

\* The page says "accepted" only when a vote on its question was counted for
\* the very identity the browser is left with, whichever of its tries that was
\* and whether that identity came with the form, with this answer or with one
\* whose body broke.
SuccessIsTrue ==
    \A p \in Page : page[p] = "success" => \E m \in Votes(url[p]) : m.vid = vid

\* No page shows its spinner, or keeps its buttons off, for ever.
PagesSettle ==
    \A p \in Page : (page[p] \in {"loading", "submitting"})
                        ~> (page[p] \notin {"loading", "submitting"})
=============================================================================
