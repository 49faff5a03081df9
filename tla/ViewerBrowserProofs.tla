------------------------ MODULE ViewerBrowserProofs -------------------------
(***************************************************************************)
(* Proofs about one viewer's browser, for every set of polls and page      *)
(* loads: what the page says is true, whatever the network does; and while *)
(* the shows lie within the life of a cookie, the browser keeps the        *)
(* identity it voted with and has one vote.                                *)
(***************************************************************************)
EXTENDS ViewerBrowser, VotingWindowProofs, FiniteSetTheorems

-----------------------------------------------------------------------------
\* Types

\* Requests that came without a cookie: an identity is made up for each.
Strangers == {m \in requests : m.vid = 0}

\* The number of a request is new when it is sent, and as many identities are
\* made up as requests were sent, at most.
TypeInv ==
    /\ TypeOK
    /\ IsFiniteSet(Strangers)
    /\ fresh + Cardinality(Strangers) <= sent
    /\ \A m \in requests \cup responses \cup ballots : m.nr <= sent
    /\ \A p \in Page : awaits[p] <= sent

\* A step of the API answers one request; only a counted vote changes what it
\* remembers.
LEMMA HandleKinds ==
    ASSUME Handle
    PROVE  \E m \in requests, result \in Verdict :
              /\ Answer(m, result)
              /\ \/ /\ UNCHANGED <<dedup, ballots>>
                    /\ result # "accepted"
                    /\ result = "form" => WindowOf(m) = "open" /\ m.kind = "form"
                 \/ Count(m)
<1>1. PICK m \in requests : Refuse(m) \/ Count(m)
    BY DEF Handle
<1>2. WindowOf(m) \in {"open", "not_published", "window_not_started", "window_closed"}
    BY VerdictType DEF WindowOf, WindowVerdict
<1>3. CASE Refuse(m)
    BY <1>1, <1>2, <1>3 DEF Refuse, Verdict
<1>4. CASE Count(m)
    BY <1>1, <1>4 DEF Count, Verdict
<1> QED
    BY <1>1, <1>3, <1>4

\* What a request that is sent brings with it.
LEMMA NewRequest ==
    ASSUME TypeInv, NEW p \in Page, NEW kind \in {"form", "vote"}, sent < MaxSent,
           sent' = sent + 1,
           requests' = requests \cup
                {[nr |-> sent + 1, kind |-> kind, poll |-> url[p], vid |-> Cookie]}
    PROVE  /\ sent' \in 0 .. MaxSent /\ sent + 1 \in Id /\ sent + 1 # 0
           /\ requests' \subseteq WireRequest
           /\ IsFiniteSet(Strangers')
           /\ fresh + Cardinality(Strangers') <= sent'
           /\ \A m \in requests' : m.nr <= sent'
<1> DEFINE new == [nr |-> sent + 1, kind |-> kind, poll |-> url[p], vid |-> Cookie]
<1>1. sent \in Nat /\ MaxSent \in Nat /\ fresh \in Nat /\ sent <= MaxSent
    BY BoundsAssumption DEF TypeInv, TypeOK
<1>2. sent' \in 0 .. MaxSent /\ sent + 1 \in Id /\ sent + 1 # 0
    BY <1>1 DEF Id
<1>3. new \in WireRequest
    <2>1. Cookie \in {0} \cup Id
        BY DEF Cookie, TypeInv, TypeOK
    <2>2. url[p] \in Poll
        BY DEF TypeInv, TypeOK
    <2> QED
        BY <1>2, <2>1, <2>2 DEF WireRequest
<1>4. requests' \subseteq WireRequest
    BY <1>3 DEF TypeInv, TypeOK
<1>5. \A m \in requests : m.nr \in Nat /\ m.nr <= sent
    BY DEF TypeInv, TypeOK, WireRequest, Id
<1>6. \A m \in requests' : m.nr <= sent'
    BY <1>1, <1>5
<1>7. Strangers' = Strangers \/ Strangers' = Strangers \cup {new}
    BY DEF Strangers
<1>8. IsFiniteSet(Strangers) /\ Cardinality(Strangers) \in Nat
    BY FS_CardinalityType DEF TypeInv
<1> HIDE DEF new
<1>9. /\ IsFiniteSet(Strangers \cup {new})
      /\ Cardinality(Strangers \cup {new}) <= Cardinality(Strangers) + 1
    <2>1. /\ IsFiniteSet(Strangers \cup {new})
          /\ Cardinality(Strangers \cup {new})
                = IF new \in Strangers THEN Cardinality(Strangers)
                  ELSE Cardinality(Strangers) + 1
        BY <1>8, FS_AddElement
    <2> QED
        BY <1>8, <2>1
<1>10. /\ IsFiniteSet(Strangers') /\ Cardinality(Strangers') \in Nat
       /\ Cardinality(Strangers') <= Cardinality(Strangers) + 1
    <2>1. IsFiniteSet(Strangers') /\ Cardinality(Strangers') <= Cardinality(Strangers) + 1
        <3>1. CASE Strangers' = Strangers
            BY <1>8, <3>1
        <3>2. CASE Strangers' = Strangers \cup {new}
            BY <1>9, <3>2
        <3> QED
            BY <1>7, <3>1, <3>2 DEF new
    <2> QED
        BY <2>1, FS_CardinalityType
<1>11. fresh + Cardinality(Strangers') <= sent'
    <2>1. fresh + Cardinality(Strangers) <= sent
        BY DEF TypeInv
    <2> QED
        BY <1>1, <1>8, <1>10, <2>1
<1> QED
    BY <1>2, <1>4, <1>6, <1>10, <1>11

\* An answer, and what it leaves of the requests.
LEMMA NewAnswer ==
    ASSUME TypeInv, NEW m \in requests, NEW result \in Verdict, Answer(m, result)
    PROVE  /\ ViewerId(m) \in Id
           /\ fresh' \in 0 .. MaxSent
           /\ responses' \subseteq WireResponse
           /\ requests' \subseteq requests
           /\ IsFiniteSet(Strangers')
           /\ fresh' + Cardinality(Strangers') <= sent
           /\ \A r \in responses' : r.nr <= sent
<1> DEFINE new == [nr |-> m.nr, result |-> result,
                   cookie |-> RememberViewer(m, ViewerId(m), result)]
<1>1. /\ sent \in Nat /\ MaxSent \in Nat /\ fresh \in Nat /\ sent <= MaxSent
      /\ fresh + Cardinality(Strangers) <= sent
    BY BoundsAssumption DEF TypeInv, TypeOK
<1>2. m \in WireRequest /\ m.nr <= sent
    BY DEF TypeInv, TypeOK
<1>3. IsFiniteSet(Strangers) /\ Cardinality(Strangers) \in Nat
    BY FS_CardinalityType DEF TypeInv
<1>4. Strangers' = Strangers \ {m}
    BY DEF Strangers, Answer
<1>5. IsFiniteSet(Strangers')
    BY <1>3, <1>4, FS_RemoveElement
<1>6. /\ ViewerId(m) \in Id /\ fresh' \in 0 .. MaxSent
      /\ fresh' + Cardinality(Strangers') <= sent
    <2>1. CASE m.vid = 0
        <3>1. m \in Strangers
            BY <2>1 DEF Strangers
        <3>2. Cardinality(Strangers') = Cardinality(Strangers) - 1
            BY <1>3, <1>4, <3>1, FS_RemoveElement
        <3>3. Cardinality(Strangers') \in Nat
            BY <1>5, FS_CardinalityType
        <3>4. fresh' = fresh + 1 /\ fresh' <= sent /\ fresh' + Cardinality(Strangers') <= sent
            BY <1>1, <1>3, <2>1, <3>2, <3>3 DEF Answer
        <3>5. fresh' \in 0 .. MaxSent /\ fresh + 1 \in Id
            BY <1>1, <3>4 DEF Id
        <3> QED
            BY <2>1, <3>4, <3>5 DEF ViewerId
    <2>2. CASE m.vid # 0
        <3>1. Strangers' = Strangers
            BY <1>4, <2>2 DEF Strangers
        <3>2. fresh' = fresh
            BY <2>2 DEF Answer
        <3>3. ViewerId(m) \in Id
            BY <1>2, <2>2 DEF ViewerId, WireRequest
        <3> QED
            BY <1>1, <1>3, <3>1, <3>2, <3>3
    <2> QED
        BY <2>1, <2>2
<1>8. new \in WireResponse
    BY <1>2, <1>6 DEF WireResponse, WireRequest, RememberViewer
<1>9. responses' = responses \cup {new} /\ requests' \subseteq requests
    BY DEF Answer
<1>10. responses' \subseteq WireResponse /\ \A r \in responses' : r.nr <= sent
    BY <1>2, <1>8, <1>9 DEF TypeInv, TypeOK
<1> QED
    BY <1>5, <1>6, <1>9, <1>10

Open(q, t) == RequireOpenVotingWindow(PollRow[q], t) = "open"

\* The dedup key of a counted vote outlives every instant at which another
\* could be let in.
LEMMA DedupExpiry ==
    ASSUME TypeInv, NEW m \in requests, Count(m)
    PROVE  LET key == <<m.poll, ViewerId(m)>>
           IN  /\ key \in Poll \X Id
               /\ dedup' \in [Poll \X Id -> Nat]
               /\ \A t \in Nat : Open(m.poll, t) => t < dedup'[key]
               /\ \A k \in (Poll \X Id) \ {key} : dedup'[k] = dedup[k]
<1> DEFINE row == PollRow[m.poll]
           closes == CalculateClosingTime(row.show_time, row.duration_seconds)
           key == <<m.poll, ViewerId(m)>>
<1>1. /\ m \in WireRequest /\ now \in Nat
      /\ \E result \in Verdict : Answer(m, result)
    BY DEF Count, Verdict, TypeInv, TypeOK
<1>2. key \in Poll \X Id
    BY <1>1, NewAnswer DEF WireRequest
<1>3. row \in Row
    BY <1>1, PollRowAssumption DEF WireRequest
<1>4. row.show_time # NoTime /\ ~(now >= closes)
    BY OpenMeansInside DEF Count, WindowOf
<1>5. row.show_time \in Nat /\ row.duration_seconds \in MIN_DURATION .. MAX_DURATION
    BY <1>3, <1>4 DEF Row
<1>6. closes \in Nat
    BY <1>5, ClosingTimeAfterShowTime
<1>7. dedup' = [dedup EXCEPT ![key] = now + SECOND * DedupTtl(closes, now)]
    BY DEF Count
<1> HIDE DEF closes
<1>8. /\ SECOND * DedupTtl(closes, now) \in Nat
      /\ closes + SECOND * DEDUP_TTL_MARGIN_SECONDS <= now + SECOND * DedupTtl(closes, now)
    BY <1>1, <1>4, <1>6, DedupTtlCoversMargin
<1>9. SECOND * DEDUP_TTL_MARGIN_SECONDS \in Nat
    BY SecondAssumption, MarginAssumption
<1> DEFINE ends == now + SECOND * DedupTtl(closes, now)
<1>10. ends \in Nat /\ closes <= ends
    BY <1>1, <1>6, <1>8, <1>9
<1> HIDE DEF ends, key
<1>11. /\ dedup' \in [Poll \X Id -> Nat] /\ dedup'[key] = ends
       /\ \A k \in (Poll \X Id) \ {key} : dedup'[k] = dedup[k]
    BY <1>2, <1>7, <1>10 DEF ends, TypeInv, TypeOK
<1>12. ASSUME NEW t \in Nat, Open(m.poll, t)
       PROVE  t < ends
    <2>1. ~(t >= closes)
        BY <1>12, OpenMeansInside DEF Open, closes
    <2> QED
        BY <1>6, <1>10, <2>1
<1> QED
    BY <1>2, <1>11, <1>12 DEF key

\* What a page may show when an answer, or only its headers, arrive: "success"
\* is for "accepted", the form is for the form.
LEMMA AnswerShows ==
    ASSUME NEW p \in Page, Deliver(p) \/ BreakInBody(p)
    PROVE  \E m \in responses, shown \in PageState :
              /\ Receive(p, m, shown)
              /\ shown \in {"ready", "success", "message", "network"}
              /\ shown = "success" => m.result = "accepted"
              /\ shown = "ready" => m.result = "form"
              /\ shown = "network" => page[p] # "loading"
<1>1. CASE Deliver(p)
    <2>1. PICK m \in responses : Receive(p, m, Shown(m.result))
        BY <1>1 DEF Deliver
    <2> QED
        BY <2>1 DEF Shown, PageState
<1>2. CASE BreakInBody(p)
    <2> DEFINE shown(m) ==
            IF Shown(m.result) = "message" THEN "message" ELSE Broken(page[p])
    <2>1. PICK m \in responses : Receive(p, m, shown(m))
        BY <1>2 DEF BreakInBody
    <2> QED
        BY <2>1 DEF Broken, PageState
<1> QED
    BY <1>1, <1>2

\* Whatever the browser or the API does, the types stay.
LEMMA TypesStay ==
    ASSUME TypeInv, [Next]_vars
    PROVE  TypeInv'
<1> USE DEF TypeInv, TypeOK, browserVars, serverVars
<1>1. ASSUME NEW p \in Page, OpenPage(p) PROVE TypeInv'
    <2>1. /\ sent' \in 0 .. MaxSent /\ sent + 1 \in Id
          /\ requests' \subseteq WireRequest
          /\ IsFiniteSet(Strangers')
          /\ fresh + Cardinality(Strangers') <= sent'
          /\ \A m \in requests' : m.nr <= sent'
        BY <1>1, NewRequest DEF OpenPage
    <2>2. /\ page' \in [Page -> PageState] /\ awaits' \in [Page -> {0} \cup Id]
          /\ \A o \in Page : awaits'[o] <= sent'
        BY <1>1, <2>1 DEF OpenPage, PageState, Id
    <2>3. \A m \in responses \cup ballots : m.nr <= sent'
        BY <1>1 DEF OpenPage, WireResponse, WireRequest, Id
    <2> QED
        BY <1>1, <2>1, <2>2, <2>3 DEF OpenPage
<1>2. ASSUME NEW p \in Page, Submit(p) PROVE TypeInv'
    <2>1. /\ sent' \in 0 .. MaxSent /\ sent + 1 \in Id
          /\ requests' \subseteq WireRequest
          /\ IsFiniteSet(Strangers')
          /\ fresh + Cardinality(Strangers') <= sent'
          /\ \A m \in requests' : m.nr <= sent'
        BY <1>2, NewRequest DEF Submit, Fetch
    <2>2. /\ page' \in [Page -> PageState] /\ awaits' \in [Page -> {0} \cup Id]
          /\ \A o \in Page : awaits'[o] <= sent'
        BY <1>2, <2>1 DEF Submit, Fetch, PageState, Id
    <2>3. \A m \in responses \cup ballots : m.nr <= sent'
        BY <1>2 DEF Submit, Fetch, WireResponse, WireRequest, Id
    <2> QED
        BY <1>2, <2>1, <2>2, <2>3 DEF Submit, Fetch
<1>3. ASSUME NEW p \in Page, Retry(p) \/ Break(p) PROVE TypeInv'
    <2>1. page' \in [Page -> PageState]
        BY <1>3 DEF Retry, Break, Broken, PageState
    <2>2. awaits' \in [Page -> {0} \cup Id] /\ \A o \in Page : awaits'[o] <= sent
        BY <1>3 DEF Retry, Break
    <2>3. Strangers' = Strangers
        BY <1>3 DEF Retry, Break, Strangers
    <2> QED
        BY <1>3, <2>1, <2>2, <2>3 DEF Retry, Break
<1>4. ASSUME NEW p \in Page, Deliver(p) \/ BreakInBody(p) PROVE TypeInv'
    <2>1. PICK m \in responses, shown \in PageState : Receive(p, m, shown)
        BY <1>4, AnswerShows
    <2>2. page' \in [Page -> PageState]
        BY <2>1 DEF Receive
    <2>3. CookieExpiry \in Nat
        BY SecondAssumption, CookieAgeAssumption DEF CookieExpiry
    <2>4. vid' \in {0} \cup Id /\ expires' \in Nat
        BY <2>1, <2>3 DEF WireResponse, Receive
    <2>5. awaits' \in [Page -> {0} \cup Id] /\ \A o \in Page : awaits'[o] <= sent
        BY <2>1 DEF Receive
    <2>6. Strangers' = Strangers
        BY <2>1 DEF Strangers, Receive
    <2> QED
        BY <2>1, <2>2, <2>4, <2>5, <2>6 DEF Receive
<1>5. ASSUME Handle PROVE TypeInv'
    <2>1. PICK m \in requests, result \in Verdict :
            Answer(m, result) /\ (UNCHANGED <<dedup, ballots>> \/ Count(m))
        BY <1>5, HandleKinds
    <2>2. /\ ViewerId(m) \in Id
          /\ fresh' \in 0 .. MaxSent
          /\ responses' \subseteq WireResponse
          /\ requests' \subseteq requests
          /\ IsFiniteSet(Strangers')
          /\ fresh' + Cardinality(Strangers') <= sent
          /\ \A r \in responses' : r.nr <= sent
        BY <2>1, NewAnswer
    <2>3. /\ dedup' \in [Poll \X Id -> Nat]
          /\ ballots' \subseteq WireRequest
          /\ \A b \in ballots' : b.nr <= sent
        <3>1. CASE UNCHANGED <<dedup, ballots>>
            BY <3>1
        <3>2. CASE Count(m)
            <4>1. /\ [m EXCEPT !.vid = ViewerId(m)] \in WireRequest
                  /\ [m EXCEPT !.vid = ViewerId(m)].nr = m.nr
                BY <2>2 DEF WireRequest
            <4>2. ballots' = ballots \cup {[m EXCEPT !.vid = ViewerId(m)]}
                BY <3>2 DEF Count
            <4> QED
                BY <3>2, <4>1, <4>2, DedupExpiry
        <3> QED
            BY <2>1, <3>1, <3>2
    <2>4. now' = now /\ UNCHANGED browserVars
        BY <2>1 DEF Answer
    <2> QED
        BY <2>2, <2>3, <2>4
<1>6. ASSUME Tick PROVE TypeInv'
    <2>1. Strangers' = Strangers /\ now' \in 0 .. MaxNow
        BY <1>6, BoundsAssumption DEF Tick, Strangers
    <2> QED
        BY <1>6, <2>1 DEF Tick
<1>7. ASSUME UNCHANGED vars PROVE TypeInv'
    <2>1. Strangers' = Strangers
        BY <1>7 DEF vars, Strangers
    <2> QED
        BY <1>7, <2>1 DEF vars
<1> QED
    BY <1>1, <1>2, <1>3, <1>4, <1>5, <1>6, <1>7 DEF Next

-----------------------------------------------------------------------------
\* What a page waits for, and what it says

\* One page is in the tab, and no other waits for an answer.
TabInv ==
    /\ \A p \in Page : awaits[p] # 0 => page[p] \in {"loading", "submitting"}
    /\ \A p, o \in Page :
          page[p] \notin {"idle", "left"} /\ page[o] \notin {"idle", "left"} => p = o

\* The request a page waits for is about its question, and carries the identity
\* in the jar or none.
OriginInv ==
    \A p \in Page :
        /\ \A m \in requests \cup ballots : m.nr = awaits[p] => m.poll = url[p]
        /\ \A m \in requests : m.nr = awaits[p] => m.vid \in {0, vid}

\* The identity that the jar will hold when answer r has arrived.
Brings(r) == IF r.cookie = 0 THEN vid ELSE r.cookie

\* "accepted", as long as a page waits for it, answers a vote counted for the
\* identity that it finds in the jar or brings.
AcceptInv ==
    \A p \in Page : \A r \in responses :
        r.nr = awaits[p] /\ r.result = "accepted" =>
            \E m \in ballots : m.nr = r.nr /\ m.vid = Brings(r)

TruthInv == TabInv /\ OriginInv /\ AcceptInv /\ SuccessIsTrue

LEMMA TruthStays ==
    ASSUME TypeInv, TypeInv', TruthInv, [Next]_vars
    PROVE  TruthInv'
<1> USE DEF TruthInv, TabInv, OriginInv, AcceptInv, SuccessIsTrue, Votes, browserVars, serverVars
<1>1. /\ \A m \in requests \cup responses \cup ballots :
            m.nr \in Nat /\ m.nr # 0 /\ m.nr <= sent
      /\ sent \in Nat /\ page \in [Page -> PageState] /\ awaits \in [Page -> {0} \cup Id]
    BY DEF TypeInv, TypeOK, WireRequest, WireResponse, Id
<1>2. ASSUME NEW p \in Page, OpenPage(p) PROVE TruthInv'
    <2>1. /\ \A o \in Page : page'[o] = IF o = p THEN "loading"
                                       ELSE IF page[o] = "idle" THEN "idle" ELSE "left"
          /\ \A o \in Page : awaits'[o] = IF o = p THEN sent + 1 ELSE 0
          /\ \A m \in requests' : \/ m \in requests
                                   \/ /\ m.poll = url[p] /\ m.nr = sent + 1
                                      /\ m.vid \in {0, vid}
          /\ UNCHANGED <<vid, url, responses, ballots>>
        BY <1>2 DEF OpenPage, Cookie
    <2>2. TabInv'
        BY <2>1
    <2>3. OriginInv'
        BY <1>1, <2>1
    <2>4. AcceptInv'
        BY <1>1, <2>1
    <2>5. SuccessIsTrue'
        BY <2>1
    <2> QED
        BY <2>2, <2>3, <2>4, <2>5
<1>3. ASSUME NEW p \in Page, Submit(p) PROVE TruthInv'
    <2>1. /\ page[p] = "ready"
          /\ \A o \in Page : page'[o] = IF o = p THEN "submitting" ELSE page[o]
          /\ \A o \in Page : awaits'[o] = IF o = p THEN sent + 1 ELSE awaits[o]
          /\ \A m \in requests' : \/ m \in requests
                                   \/ /\ m.poll = url[p] /\ m.nr = sent + 1
                                      /\ m.vid \in {0, vid}
          /\ UNCHANGED <<vid, url, responses, ballots>>
        BY <1>1, <1>3 DEF Submit, Fetch, Cookie
    <2>2. TabInv'
        BY <2>1
    <2>3. \A o \in Page \ {p} : awaits'[o] = 0
        BY <2>1
    <2>4. OriginInv'
        BY <1>1, <2>1, <2>3
    <2>5. AcceptInv'
        BY <1>1, <2>1, <2>3 DEF Brings
    <2>6. SuccessIsTrue'
        BY <2>1
    <2> QED
        BY <2>2, <2>4, <2>5, <2>6
<1>4. ASSUME NEW p \in Page, Retry(p) \/ Break(p) PROVE TruthInv'
    <2>1. /\ page[p] \in {"network", "loading", "submitting"}
          /\ page'[p] \in {"ready", "message", "network"}
          /\ awaits'[p] = 0
          /\ \A o \in Page \ {p} : page'[o] = page[o] /\ awaits'[o] = awaits[o]
          /\ UNCHANGED <<vid, url, requests, responses, ballots>>
        BY <1>1, <1>4 DEF Retry, Break, Broken
    <2>2. TabInv'
        BY <2>1
    <2>3. OriginInv'
        BY <1>1, <2>1
    <2>4. AcceptInv'
        BY <1>1, <2>1 DEF Brings
    <2>5. SuccessIsTrue'
        BY <2>1
    <2> QED
        BY <2>2, <2>3, <2>4, <2>5
<1>5. ASSUME NEW p \in Page, Deliver(p) \/ BreakInBody(p) PROVE TruthInv'
    <2>1. PICK m \in responses, shown \in PageState :
            /\ Receive(p, m, shown)
            /\ shown \in {"ready", "success", "message", "network"}
            /\ shown = "success" => m.result = "accepted"
        BY <1>5, AnswerShows
    <2>2. /\ page[p] \in {"loading", "submitting"}
          /\ m.nr = awaits[p] /\ m.nr # 0
          /\ page'[p] \in {"ready", "success", "message", "network"}
          /\ page'[p] = "success" => m.result = "accepted"
          /\ \A o \in Page \ {p} : page'[o] = page[o]
          /\ \A o \in Page : awaits'[o] = IF o = p THEN 0 ELSE awaits[o]
          /\ vid' = Brings(m)
          /\ UNCHANGED <<url, requests, ballots>>
        BY <1>1, <2>1 DEF Receive, Brings
    <2>3. \A o \in Page : awaits'[o] = 0
        BY <2>2
    <2>4. TabInv'
        BY <2>2
    <2>5. OriginInv' /\ AcceptInv'
        BY <1>1, <2>1, <2>2, <2>3 DEF Receive
    <2>6. page'[p] = "success" => \E b \in ballots : b.poll = url[p] /\ b.vid = vid'
        BY <2>2
    <2>7. \A o \in Page \ {p} : page'[o] # "success"
        BY <2>2
    <2>8. SuccessIsTrue'
        BY <2>2, <2>6, <2>7
    <2> QED
        BY <2>4, <2>5, <2>8
<1>6. ASSUME Handle PROVE TruthInv'
    <2>1. PICK m \in requests, result \in Verdict :
            /\ Answer(m, result)
            /\ \/ UNCHANGED <<dedup, ballots>> /\ result # "accepted"
               \/ Count(m)
        BY <1>6, HandleKinds
    <2> DEFINE counted == [m EXCEPT !.vid = ViewerId(m)]
    <2>2. /\ requests' \subseteq requests
          /\ \A r \in responses' :
                \/ r \in responses
                \/ /\ r.nr = m.nr /\ r.result = result
                   /\ r.cookie = RememberViewer(m, ViewerId(m), result)
          /\ UNCHANGED browserVars
        BY <2>1 DEF Answer
    <2>3. (ballots' = ballots /\ result # "accepted") \/ ballots' = ballots \cup {counted}
        BY <2>1 DEF Count
    <2>4. /\ counted.nr = m.nr /\ counted.poll = m.poll /\ counted.vid = ViewerId(m)
          /\ ViewerId(m) # 0
        <3>1. m \in WireRequest
            BY DEF TypeInv, TypeOK
        <3>2. ViewerId(m) # 0
            BY <2>1, NewAnswer DEF Id
        <3> QED
            BY <3>1, <3>2 DEF WireRequest
    <2>5. \A p \in Page : m.nr = awaits[p] /\ result = "accepted" =>
                ViewerId(m) = IF RememberViewer(m, ViewerId(m), result) = 0 THEN vid
                              ELSE RememberViewer(m, ViewerId(m), result)
        BY <2>4 DEF RememberViewer, ViewerId
    <2> HIDE DEF counted
    <2>6. AcceptInv'
        BY <2>2, <2>3, <2>4, <2>5 DEF Brings
    <2>7. OriginInv' /\ TabInv' /\ SuccessIsTrue'
        BY <2>2, <2>3, <2>4
    <2> QED
        BY <2>6, <2>7
<1>7. ASSUME Tick \/ UNCHANGED vars PROVE TruthInv'
    <2>1. UNCHANGED <<vid, page, url, awaits, requests, responses, ballots>>
        BY <1>7 DEF Tick, vars
    <2>2. TabInv' /\ OriginInv' /\ AcceptInv' /\ SuccessIsTrue'
        BY <2>1 DEF Brings
    <2> QED
        BY <2>2
<1> QED
    BY <1>2, <1>3, <1>4, <1>5, <1>6, <1>7 DEF Next

\* What holds of the browser and the API whenever the shows are.
THEOREM BrowserInvariant == Spec => [](TypeInv /\ TruthInv)
<1>1. Init => TypeInv /\ TruthInv
    <2> SUFFICES ASSUME Init PROVE TypeInv /\ TruthInv
        OBVIOUS
    <2>1. Strangers = {}
        BY DEF Init, Strangers
    <2>2. IsFiniteSet(Strangers) /\ Cardinality(Strangers) = 0
        BY <2>1, FS_EmptySet
    <2>3. TypeOK
        BY BoundsAssumption DEF Init, TypeOK, PageState
    <2>4. TypeInv
        BY <2>2, <2>3 DEF Init, TypeInv
    <2> QED
        BY <2>4 DEF Init, TruthInv, TabInv, OriginInv, AcceptInv, SuccessIsTrue
<1>2. TypeInv /\ [Next]_vars => TypeInv'
    BY TypesStay
<1>3. TypeInv /\ TypeInv' /\ TruthInv /\ [Next]_vars => TruthInv'
    BY TruthStays
<1> QED
    BY <1>1, <1>2, <1>3, PTL DEF Spec

\* Every variable keeps its type: the API makes up no more identities than the
\* browser has sent requests, and the page never gets into an unknown state.
THEOREM BrowserTypes == Spec => []TypeOK
<1>1. TypeInv => TypeOK
    BY DEF TypeInv
<1> QED
    BY <1>1, BrowserInvariant, PTL

\* The page says "accepted" only when a vote on its question was counted for
\* the identity in the browser's jar, whatever was lost, late, retried or left
\* on the way, and whether or not cookies outlive the shows.
THEOREM SuccessTold == Spec => []SuccessIsTrue
<1>1. TruthInv => SuccessIsTrue
    BY DEF TruthInv
<1> QED
    BY <1>1, BrowserInvariant, PTL

-----------------------------------------------------------------------------
\* The identity of the browser

\* How long the browser keeps a cookie, in ticks of the clock.
CookieLife == SECOND * VIEWER_COOKIE_MAX_AGE

\* The shows of an evening: no two instants at which polls are open lie as far
\* apart as a cookie lives.
ShowsWithinCookieLife ==
    \A p, q \in Poll, t, u \in Nat : Open(p, t) /\ Open(q, u) => u < t + CookieLife

AnyOpen(t) == \E q \in Poll : Open(q, t)

Awaited(nr) == \E p \in Page : awaits[p] = nr

\* The cookie in the jar came with an answer given while a poll was open, and
\* a page with a form to send has brought one.
JarInv ==
    /\ vid # 0 => \E s \in 0 .. now : AnyOpen(s) /\ s + CookieLife <= expires
    /\ \A r \in responses : r.cookie # 0 => \E s \in 0 .. now : AnyOpen(s)
    /\ \A r \in responses : r.result = "form" /\ r.cookie = 0 => vid # 0
    /\ \A p \in Page : page[p] \in {"ready", "submitting", "network"} => vid # 0

\* Every request carries the one identity or none, and none only before the
\* browser has it or after the last show; an answer still waited for brings an
\* identity only to an empty jar.
CarryInv ==
    /\ \A m \in requests : m.vid # 0 => m.vid = vid
    /\ \A m \in requests : m.vid = 0 /\ Awaited(m.nr) => vid = 0 \/ now >= expires
    /\ \A m \in requests : m.kind = "vote" => vid # 0 /\ (m.vid = vid \/ now >= expires)
    /\ \A r \in responses : r.cookie # 0 /\ Awaited(r.nr) => vid = 0

\* Votes were cast under that identity, and its dedup keys last.
BallotInv ==
    /\ \A m \in ballots : m.vid # 0 /\ m.vid = vid
    /\ \A m \in ballots : \A t \in Nat : Open(m.poll, t) => t < dedup[<<m.poll, m.vid>>]
    /\ \A m, o \in ballots : m.poll = o.poll => m = o

IdentityInv == JarInv /\ CarryInv /\ BallotInv

\* While a poll is open, the cookie that any poll's answer brought is alive.
LEMMA CookieAlive ==
    ASSUME ShowsWithinCookieLife, TypeInv, JarInv, vid # 0, NEW t \in Nat, AnyOpen(t)
    PROVE  t < expires
<1>1. PICK s \in 0 .. now : AnyOpen(s) /\ s + CookieLife <= expires
    BY DEF JarInv
<1>2. s \in Nat /\ CookieLife \in Nat /\ expires \in Nat
    BY SecondAssumption, CookieAgeAssumption DEF CookieLife, TypeInv, TypeOK
<1>3. t < s + CookieLife
    BY <1>1, <1>2 DEF ShowsWithinCookieLife, AnyOpen
<1> QED
    BY <1>1, <1>2, <1>3

\* Requests that leave: opening the page, and sending a vote from a ready form.
LEMMA FetchKeeps ==
    ASSUME TypeInv, TruthInv, IdentityInv,
           NEW p \in Page, NEW kind \in {"form", "vote"},
           requests' = requests \cup
                {[nr |-> sent + 1, kind |-> kind, poll |-> url[p], vid |-> Cookie]},
           awaits'[p] = sent + 1, \A o \in Page \ {p} : awaits'[o] = 0,
           \A o \in Page : page'[o] \in {"ready", "submitting", "network"} => vid # 0,
           kind = "vote" => vid # 0,
           UNCHANGED <<now, vid, expires, responses, serverVars>>
    PROVE  IdentityInv'
<1> DEFINE new == [nr |-> sent + 1, kind |-> kind, poll |-> url[p], vid |-> Cookie]
<1>1. /\ \A m \in requests \cup responses : m.nr \in Nat /\ m.nr # 0 /\ m.nr <= sent
      /\ sent \in Nat /\ now \in Nat /\ expires \in Nat
    BY DEF TypeInv, TypeOK, WireRequest, WireResponse, Id
<1>2. \A m \in requests \cup responses : ~Awaited(m.nr)'
    BY <1>1 DEF Awaited
<1>3. /\ new.vid # 0 => new.vid = vid
      /\ new.vid = 0 => vid = 0 \/ now >= expires
      /\ new.kind = "vote" => vid # 0
    BY <1>1 DEF Cookie
<1>4. requests' = requests \cup {new}
    OBVIOUS
<1> HIDE DEF new
<1>5. JarInv'
    BY DEF IdentityInv, JarInv, AnyOpen, Open
<1>6. CarryInv'
    BY <1>1, <1>2, <1>3, <1>4 DEF IdentityInv, CarryInv
<1>7. BallotInv'
    BY DEF IdentityInv, BallotInv, serverVars
<1> QED
    BY <1>5, <1>6, <1>7 DEF IdentityInv

LEMMA DeliverKeeps ==
    ASSUME TypeInv, TruthInv, IdentityInv, NEW p \in Page, Deliver(p) \/ BreakInBody(p)
    PROVE  IdentityInv'
<1>1. PICK m \in responses, shown \in PageState :
        /\ m.nr = awaits[p] /\ page' = [page EXCEPT ![p] = shown]
        /\ shown \in {"ready", "success", "message", "network"}
        /\ shown = "ready" => m.result = "form"
        /\ shown = "network" => page[p] # "loading"
        /\ IF m.cookie = 0 THEN UNCHANGED <<vid, expires>>
           ELSE vid' = m.cookie /\ expires' = CookieExpiry
        /\ awaits' = [awaits EXCEPT ![p] = 0]
        /\ responses' = responses \ {m}
        /\ UNCHANGED <<now, url, sent, requests, dedup, ballots>>
    BY AnswerShows DEF Receive, serverVars
<1>2. /\ page \in [Page -> PageState] /\ awaits \in [Page -> {0} \cup Id]
      /\ now \in Nat /\ m.nr # 0 /\ CookieLife \in Nat
      /\ \A r \in requests \cup responses : r.nr # 0
    BY SecondAssumption, CookieAgeAssumption
    DEF CookieLife, TypeInv, TypeOK, WireRequest, WireResponse, Id
<1>3. /\ \A o \in Page : awaits'[o] = 0
      /\ page'[p] = shown
      /\ \A o \in Page \ {p} : page'[o] = page[o]
    <2>1. \A o \in Page \ {p} : awaits[o] = 0
        BY <1>1, <1>2 DEF TruthInv, TabInv
    <2> QED
        BY <1>1, <1>2, <2>1
<1>4. \A r \in requests \cup responses : ~Awaited(r.nr)'
    BY <1>2, <1>3 DEF Awaited
<1>5. CASE m.cookie = 0
    <2>1. vid' = vid /\ expires' = expires
        BY <1>1, <1>5
    <2>2. page'[p] \in {"ready", "submitting", "network"} => vid # 0
        <3>1. page[p] \in {"loading", "submitting"}
            BY <1>1, <1>2 DEF TruthInv, TabInv
        <3> QED
            BY <1>1, <1>3, <1>5, <3>1 DEF IdentityInv, JarInv
    <2>3. JarInv'
        BY <1>1, <1>3, <2>1, <2>2 DEF IdentityInv, JarInv, AnyOpen, Open
    <2>4. CarryInv'
        BY <1>1, <1>4, <2>1 DEF IdentityInv, CarryInv
    <2>5. BallotInv'
        BY <1>1, <2>1 DEF IdentityInv, BallotInv
    <2> QED
        BY <2>3, <2>4, <2>5 DEF IdentityInv
<1>6. CASE m.cookie # 0
    <2>1. vid' = m.cookie /\ expires' = now + CookieLife /\ vid = 0
        BY <1>1, <1>6 DEF CookieExpiry, CookieLife, IdentityInv, CarryInv, Awaited
    <2>2. \E s \in 0 .. now : AnyOpen(s) /\ s + CookieLife <= expires'
        <3>1. PICK s \in 0 .. now : AnyOpen(s)
            BY <1>6 DEF IdentityInv, JarInv
        <3>2. s + CookieLife <= expires'
            BY <1>2, <2>1
        <3> QED
            BY <3>1, <3>2
    <2>3. JarInv'
        BY <1>1, <1>6, <2>1, <2>2 DEF IdentityInv, JarInv, AnyOpen, Open
    <2>4. CarryInv'
        BY <1>1, <1>4, <2>1 DEF IdentityInv, CarryInv
    <2>5. BallotInv'
        BY <1>1, <2>1 DEF IdentityInv, BallotInv
    <2> QED
        BY <2>3, <2>4, <2>5 DEF IdentityInv
<1> QED
    BY <1>5, <1>6

\* What the API does with a request: it makes up an identity only for an empty
\* jar, and counts a vote only under the identity in the jar, once.
LEMMA HandleKeeps ==
    ASSUME ShowsWithinCookieLife, TypeInv, TruthInv, IdentityInv, Handle
    PROVE  IdentityInv'
<1>1. PICK m \in requests, result \in Verdict :
        /\ Answer(m, result)
        /\ \/ /\ UNCHANGED <<dedup, ballots>>
              /\ result # "accepted"
              /\ result = "form" => WindowOf(m) = "open" /\ m.kind = "form"
           \/ Count(m)
    BY HandleKinds
<1> DEFINE new == [nr |-> m.nr, result |-> result,
                   cookie |-> RememberViewer(m, ViewerId(m), result)]
<1>2. /\ requests' = requests \ {m} /\ responses' = responses \cup {new}
      /\ UNCHANGED <<now, vid, expires, page, url, awaits, sent>>
    BY <1>1 DEF Answer, browserVars
<1>3. /\ m \in WireRequest /\ m.poll \in Poll /\ now \in Nat /\ expires \in Nat
      /\ requests \subseteq WireRequest
    BY DEF TypeInv, TypeOK, WireRequest
<1>4. new.cookie # 0 => m.vid = 0 /\ result \in {"form", "accepted"}
    BY DEF RememberViewer
<1>5. result \in {"form", "accepted"} => Open(m.poll, now)
    BY <1>1 DEF Count, WindowOf, Open
<1>6. Open(m.poll, now) /\ vid # 0 => now < expires
    BY <1>3, CookieAlive DEF AnyOpen, IdentityInv
<1>7. new.cookie # 0 /\ Awaited(m.nr) => vid = 0
    BY <1>3, <1>4, <1>5, <1>6 DEF IdentityInv, CarryInv
<1>8. new.result = "form" /\ new.cookie = 0 => vid # 0
    <2>1. ViewerId(m) # 0
        BY <1>1, NewAnswer DEF Id
    <2> QED
        BY <2>1 DEF RememberViewer, IdentityInv, CarryInv
<1>9. new.cookie # 0 => \E s \in 0 .. now : AnyOpen(s)
    <2>1. now \in 0 .. now
        BY <1>3
    <2> QED
        BY <1>3, <1>4, <1>5, <2>1 DEF AnyOpen
<1>10. new.nr = m.nr
    OBVIOUS
<1> HIDE DEF new
<1>11. JarInv'
    <2>1. \A r \in responses' : r \in responses \/ r = new
        BY <1>2
    <2> QED
        BY <1>2, <1>8, <1>9, <2>1 DEF IdentityInv, JarInv, AnyOpen, Open
<1>12. CarryInv'
    <2>1. \A nr : Awaited(nr)' <=> Awaited(nr)
        BY <1>2 DEF Awaited
    <2> QED
        BY <1>2, <1>7, <1>10, <2>1 DEF IdentityInv, CarryInv
<1>13. BallotInv'
    <2>1. CASE UNCHANGED <<dedup, ballots>>
        BY <1>2, <2>1 DEF IdentityInv, BallotInv
    <2>2. CASE Count(m)
        <3> DEFINE counted == [m EXCEPT !.vid = ViewerId(m)]
        <3>1. /\ m.kind = "vote" /\ Open(m.poll, now) /\ ~Voted(m)
              /\ ballots' = ballots \cup {counted}
            BY <2>2 DEF Count, WindowOf, Open
        <3>2. /\ vid # 0 /\ m.vid = vid /\ ViewerId(m) = vid
              /\ counted.vid = vid /\ counted.poll = m.poll
            <4>1. vid # 0 /\ m.vid = vid /\ ViewerId(m) = vid
                BY <1>3, <1>6, <3>1 DEF IdentityInv, CarryInv, ViewerId
            <4> QED
                BY <1>3, <4>1 DEF WireRequest
        <3> HIDE DEF counted
        <3>3. \A o \in ballots : o.poll # m.poll
            <4> SUFFICES ASSUME NEW o \in ballots, o.poll = m.poll PROVE FALSE
                OBVIOUS
            <4>1. now < dedup[<<o.poll, o.vid>>] /\ o.vid = vid
                BY <1>3, <3>1 DEF IdentityInv, BallotInv
            <4> QED
                BY <3>1, <3>2, <4>1 DEF Voted
        <3>4. /\ \A t \in Nat : Open(m.poll, t) => t < dedup'[<<m.poll, ViewerId(m)>>]
              /\ \A k \in (Poll \X Id) \ {<<m.poll, ViewerId(m)>>} : dedup'[k] = dedup[k]
            BY <2>2, DedupExpiry
        <3>5. \A o \in ballots : <<o.poll, o.vid>> \in (Poll \X Id) \ {<<m.poll, ViewerId(m)>>}
            <4> TAKE o \in ballots
            <4>1. o \in WireRequest /\ o.vid # 0
                BY DEF TypeInv, TypeOK, IdentityInv, BallotInv
            <4>2. <<o.poll, o.vid>> \in Poll \X Id
                BY <4>1 DEF WireRequest
            <4> QED
                BY <3>3, <4>2
        <3>6. \A o \in ballots' : o.vid # 0 /\ o.vid = vid'
            BY <1>2, <3>1, <3>2 DEF IdentityInv, BallotInv
        <3>7. ASSUME NEW o \in ballots'
              PROVE  \A t \in Nat : Open(o.poll, t) => t < dedup'[<<o.poll, o.vid>>]
            <4>1. CASE o \in ballots
                <5>1. dedup'[<<o.poll, o.vid>>] = dedup[<<o.poll, o.vid>>]
                    BY <3>4, <3>5, <4>1
                <5> QED
                    BY <4>1, <5>1 DEF IdentityInv, BallotInv
            <4>2. CASE o = counted
                BY <3>2, <3>4, <4>2
            <4> QED
                BY <3>1, <4>1, <4>2
        <3>8. \A b, o \in ballots' : b.poll = o.poll => b = o
            BY <3>1, <3>2, <3>3 DEF IdentityInv, BallotInv
        <3> QED
            BY <3>6, <3>7, <3>8 DEF BallotInv, Open
    <2> QED
        BY <1>1, <2>1, <2>2
<1> QED
    BY <1>11, <1>12, <1>13 DEF IdentityInv

LEMMA IdentityStays ==
    ASSUME ShowsWithinCookieLife, TypeInv, TruthInv, IdentityInv, [Next]_vars
    PROVE  IdentityInv'
<1>1. /\ page \in [Page -> PageState] /\ awaits \in [Page -> {0} \cup Id]
      /\ now \in Nat /\ expires \in Nat
    BY DEF TypeInv, TypeOK
<1>2. ASSUME NEW p \in Page, OpenPage(p) PROVE IdentityInv'
    BY <1>2, FetchKeeps DEF OpenPage
<1>3. ASSUME NEW p \in Page, Submit(p) PROVE IdentityInv'
    <2>1. /\ page[p] = "ready" /\ vid # 0
          /\ \A o \in Page \ {p} : page'[o] = page[o]
        BY <1>1, <1>3 DEF Submit, IdentityInv, JarInv
    <2>2. /\ awaits'[p] = sent + 1
          /\ \A o \in Page \ {p} : awaits'[o] = awaits[o]
        BY <1>1, <1>3 DEF Submit, Fetch
    <2>3. \A o \in Page \ {p} : awaits'[o] = 0
        BY <2>1, <2>2 DEF TruthInv, TabInv
    <2> QED
        BY <1>3, <2>1, <2>2, <2>3, FetchKeeps DEF Submit, Fetch
<1>4. ASSUME NEW p \in Page, Retry(p) \/ Break(p) PROVE IdentityInv'
    <2>1. /\ page'[p] \in {"ready", "submitting", "network"} => vid # 0
          /\ \A o \in Page \ {p} : page'[o] = page[o]
          /\ \A o \in Page : awaits'[o] = awaits[o] \/ awaits'[o] = 0
          /\ UNCHANGED <<now, vid, expires, requests, responses, dedup, ballots>>
        BY <1>1, <1>4 DEF Retry, Break, Broken, IdentityInv, JarInv, TruthInv, TabInv, serverVars
    <2>2. JarInv'
        BY <2>1 DEF IdentityInv, JarInv, AnyOpen, Open
    <2>3. \A m \in requests \cup responses : Awaited(m.nr)' => Awaited(m.nr)
        <3>1. \A m \in requests \cup responses : m.nr # 0
            BY DEF TypeInv, TypeOK, WireRequest, WireResponse, Id
        <3> QED
            BY <2>1, <3>1 DEF Awaited
    <2>4. CarryInv'
        BY <2>1, <2>3 DEF IdentityInv, CarryInv
    <2>5. BallotInv'
        BY <2>1 DEF IdentityInv, BallotInv
    <2> QED
        BY <2>2, <2>4, <2>5 DEF IdentityInv
<1>5. ASSUME Tick PROVE IdentityInv'
    <2>1. now' = now + 1 /\ \A s \in 0 .. now : s \in 0 .. now'
        BY <1>1, <1>5 DEF Tick
    <2>2. UNCHANGED <<vid, expires, page, awaits, requests, responses, dedup, ballots>>
        BY <1>5 DEF Tick, browserVars, serverVars
    <2>3. JarInv'
        BY <2>1, <2>2 DEF IdentityInv, JarInv, AnyOpen, Open
    <2>4. now >= expires => now' >= expires
        BY <1>1, <2>1
    <2>5. CarryInv'
        BY <2>2, <2>4 DEF IdentityInv, CarryInv, Awaited
    <2>6. BallotInv'
        BY <2>2 DEF IdentityInv, BallotInv
    <2> QED
        BY <2>3, <2>5, <2>6 DEF IdentityInv
<1>6. ASSUME UNCHANGED vars PROVE IdentityInv'
    BY <1>6 DEF vars, browserVars, serverVars, IdentityInv, JarInv, CarryInv, BallotInv,
       AnyOpen, Open, Awaited
<1> QED
    BY <1>2, <1>3, <1>4, <1>5, <1>6, DeliverKeeps, HandleKeeps DEF Next

\* While the shows lie within the life of a cookie, the browser has one
\* identity, whatever is lost, late or retried.
THEOREM OneIdentity ==
    ASSUME ShowsWithinCookieLife
    PROVE  Spec => [](TypeInv /\ IdentityInv)
<1>1. Init => IdentityInv
    BY DEF Init, IdentityInv, JarInv, CarryInv, BallotInv
<1>2. TypeInv /\ TruthInv /\ IdentityInv /\ [Next]_vars => IdentityInv'
    BY IdentityStays
<1> QED
    BY <1>1, <1>2, BrowserInvariant, PTL DEF Spec

\* Broken connections, late answers, retries and reloads give a browser no
\* second vote for a question, if the shows lie within the life of a cookie.
THEOREM BrowserVotesOnce ==
    ASSUME ShowsWithinCookieLife
    PROVE  Spec => []OneVotePerBrowser
<1>1. BallotInv => OneVotePerBrowser
    <2> SUFFICES ASSUME BallotInv, NEW q \in Poll
                 PROVE  Cardinality(Votes(q)) <= 1
        BY DEF OneVotePerBrowser
    <2>1. Votes(q) = {} \/ \E m : Votes(q) = {m}
        BY DEF BallotInv, Votes
    <2>2. CASE Votes(q) = {}
        <3>1. Cardinality({}) = 0
            BY FS_EmptySet
        <3> QED
            BY <2>2, <3>1
    <2>3. CASE \E m : Votes(q) = {m}
        <3>1. PICK m : Votes(q) = {m}
            BY <2>3
        <3>2. Cardinality({m}) = 1
            BY FS_Singleton
        <3> QED
            BY <3>1, <3>2
    <2> QED
        BY <2>1, <2>2, <2>3
<1>2. IdentityInv => OneVotePerBrowser
    BY <1>1 DEF IdentityInv
<1> QED
    BY <1>2, OneIdentity, PTL

\* As long as a second vote could be let in, the browser still shows the
\* identity that voted, if the shows lie within the life of a cookie.
THEOREM VoterIsRemembered ==
    ASSUME ShowsWithinCookieLife
    PROVE  Spec => []VoterRemembered
<1>1. TypeInv /\ IdentityInv => VoterRemembered
    <2> SUFFICES ASSUME TypeInv, IdentityInv, NEW q \in Poll, NEW m \in Votes(q),
                        RequireOpenVotingWindow(PollRow[q], now) = "open"
                 PROVE  Cookie = m.vid /\ Cookie # 0
        BY DEF VoterRemembered
    <2>1. m.vid # 0 /\ m.vid = vid
        BY DEF Votes, IdentityInv, BallotInv
    <2>2. now \in Nat /\ AnyOpen(now)
        BY DEF AnyOpen, Open, TypeInv, TypeOK
    <2>3. now < expires
        BY <2>1, <2>2, CookieAlive DEF IdentityInv
    <2> QED
        BY <2>1, <2>3 DEF Cookie
<1> QED
    BY <1>1, OneIdentity, PTL

\* One show is always within the life of a cookie, since it is no longer than
\* MAX_DURATION: an hour (question/models.py:37) against a day.
LEMMA OneShowFits ==
    ASSUME MAX_DURATION <= VIEWER_COOKIE_MAX_AGE, \A p, q \in Poll : p = q
    PROVE  ShowsWithinCookieLife
<1> SUFFICES ASSUME NEW q \in Poll, NEW t \in Nat, NEW u \in Nat, Open(q, t), Open(q, u)
             PROVE  u < t + CookieLife
    BY DEF ShowsWithinCookieLife
<1> DEFINE row == PollRow[q]
<1>1. /\ row.show_time # NoTime /\ ~(t < row.show_time)
      /\ ~(u >= CalculateClosingTime(row.show_time, row.duration_seconds))
    BY OpenMeansInside DEF Open
<1>2. row \in Row
    BY PollRowAssumption
<1>3. /\ row.show_time \in Nat /\ row.duration_seconds \in Nat
      /\ row.duration_seconds <= VIEWER_COOKIE_MAX_AGE
    BY <1>1, <1>2, DurationAssumption, CookieAgeAssumption DEF Row
<1>4. SECOND * row.duration_seconds <= CookieLife
    <2>1. SECOND \in Nat /\ VIEWER_COOKIE_MAX_AGE \in Nat
        BY SecondAssumption, CookieAgeAssumption
    <2> QED
        BY <1>3, <2>1 DEF CookieLife
<1>5. SECOND * row.duration_seconds \in Nat /\ CookieLife \in Nat
    BY <1>3, SecondAssumption, CookieAgeAssumption DEF CookieLife
<1> QED
    BY <1>1, <1>3, <1>4, <1>5 DEF CalculateClosingTime

=============================================================================
