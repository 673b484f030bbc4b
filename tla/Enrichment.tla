---------------------------- MODULE Enrichment ----------------------------
(***************************************************************************)
(* enrich_lead, score_lead and compute_score: a session reads the lead,    *)
(* analyses its website, replaces its signals, takes a screenshot, flushes *)
(* and scores it, then commits (a Celery step) or is closed without a      *)
(* commit (an error, or POST /enrichment/{id} and POST /scoring/{id},      *)
(* which never commit).  Nothing is locked before the flush, and several   *)
(* workers run at once.  Pages and businesses are records of the facts the *)
(* code looks at; a signal is the row of its type, of what distinguishes   *)
(* its detail, and of the analysis that stored it.                         *)
(***************************************************************************)
EXTENDS Integers, FiniteSets, FiniteSetsExt

CONSTANTS Pages,       \* what fetching and parsing the website may yield
          Businesses,  \* leads as they are created
          Enrichers,   \* sessions that may be open at the same time
          MaxShots,    \* bound: screenshots taken
          MaxAnalyses  \* bound: analyses made

VARIABLES lead,      \* the committed row, with its signals and screenshot artifacts
          work,      \* what each session has read and would write
          disk,      \* screenshot files under storage/
          shots,     \* screenshots taken so far
          analyses,  \* analyses made so far
          overlapped \* whether the last session to replace signals had read them
                     \* before another one replaced them

vars == <<lead, work, disk, shots, analyses, overlapped>>

Closed == [at |-> "closed"]
NoShot == 0

SignalTypes == {"no_website", "instagram_only", "outdated_website", "no_custom_domain",
                "no_visible_email", "no_ssl", "weak_seo", "no_mobile_friendly", "slow_load",
                "website_error", "has_website", "has_custom_domain"}

Signal(type) == <<type, "">>
If(condition, signal) == IF condition THEN {signal} ELSE {}

\* The row of a new lead.
NewLead(b) == [business |-> b, website |-> b.website, instagram |-> b.instagram,
               email |-> b.email, status |-> "new", score |-> -1, signals |-> {},
               artifacts |-> {}]

Init ==
  /\ \E b \in Businesses : lead = NewLead(b)
  /\ work = [e \in Enrichers |-> Closed] /\ disk = {} /\ shots = 0
  /\ analyses = 0 /\ overlapped = FALSE

---------------------------------------------------------------------------
(* _analyze_website.  A page is a failed fetch or what was parsed.         *)

FailedFetch(page) == page.fetch # "ok"

\* "home" or "sub": an address on the home page, or only on a contact page.
FoundEmail(page) == ~FailedFetch(page) /\ page.email # "none"

_analyze_website(page) ==
  IF page.fetch = "refused" THEN {Signal("no_website")}
  ELSE IF FailedFetch(page) THEN {Signal("website_error")}
  ELSE {Signal("has_website"),
        Signal(IF page.freeHost THEN "no_custom_domain" ELSE "has_custom_domain")}
       \cup If(page.slow, Signal("slow_load"))
       \cup If(~page.https, Signal("no_ssl"))
       \cup If(~page.viewport, Signal("no_mobile_friendly"))
       \cup If(~page.title, <<"weak_seo", "title">>)
       \cup If(~page.description, <<"weak_seo", "description">>)
       \cup If(page.email = "none", Signal("no_visible_email"))
       \cup If(page.wordpress, Signal("outdated_website"))

\* A social profile entered as website_url is moved or dropped.
ResolveSocial(l) ==
  IF l.website \notin {"instagram", "social"} THEN l
  ELSE [l EXCEPT !.instagram = @ \/ l.website = "instagram", !.website = "none"]

\* Without a website the Instagram bio (which yields no social link) may supply one.
ResolveBio(l, bio) ==
  IF l.website = "none" /\ l.instagram /\ bio THEN [l EXCEPT !.website = "site"] ELSE l

Resolve(l, bio) == ResolveBio(ResolveSocial(l), bio)

SignalsOf(l, page) ==
  (IF l.website # "none" THEN _analyze_website(page) ELSE {Signal("no_website")})
  \cup If(l.instagram /\ l.website = "none", Signal("instagram_only"))

\* The rows of the n-th analysis.
Stored(signals, n) == {<<s, n>> : s \in signals}

\* Mutant of StoreSignals: the signals of the previous enrichment are kept.
KeepOldSignals(l, page, n) == [l EXCEPT !.signals = @ \cup Stored(SignalsOf(l, page), n)]

\* The signals the session finds stored are deleted, its own are added.
StoreSignals(l, page, n) == [l EXCEPT !.signals = Stored(SignalsOf(l, page), n)]

StoreEmail(l, page) ==
  [l EXCEPT !.email = IF @ = "none" /\ l.website # "none" /\ FoundEmail(page) THEN "found" ELSE @]

\* A screenshot is tried unless the site does not exist; it may fail.
WantsShot(l, page) == l.website # "none" /\ page.fetch # "refused"

---------------------------------------------------------------------------
(* compute_score; score_lead does not pass db, so no override is read.     *)

SIGNAL_WEIGHTS ==
  [outdated_website |-> 22, website_error |-> 22, no_custom_domain |-> 18,
   no_mobile_friendly |-> 15, no_ssl |-> 12, slow_load |-> 10, weak_seo |-> 10,
   no_visible_email |-> 8, no_website |-> 12, instagram_only |-> 10,
   has_website |-> 0, has_custom_domain |-> 0]

INDUSTRY_BONUS(b) == IF b.highValue THEN 15 ELSE 0
COMPLETENESS_BONUSES(l) == (IF l.business.phone THEN 3 ELSE 0) + (IF l.email # "none" THEN 5 ELSE 0)
                           + (IF l.instagram THEN 2 ELSE 0) + (IF l.business.city THEN 2 ELSE 0)
MapsBonus(b) == (IF b.lowRating THEN 8 ELSE 0)
                + CASE b.reviews = "under10" -> 10 [] b.reviews = "under50" -> 5 [] OTHER -> 0

RawScore(l) == MapThenSumSet(LAMBDA s : SIGNAL_WEIGHTS[s[1][1]], l.signals)
               + INDUSTRY_BONUS(l.business) + COMPLETENESS_BONUSES(l) + MapsBonus(l.business)

compute_score(l) == Min({100, RawScore(l)})

---------------------------------------------------------------------------
(* Steps of a session.                                                     *)

Session(at, read, row, stale) == [at |-> at, read |-> read, row |-> row, stale |-> stale]

\* The session reads the lead; the pages are fetched only after that.
Open(e) ==
  /\ work[e] = Closed
  /\ work' = [work EXCEPT ![e] = Session("open", lead, lead, FALSE)]
  /\ UNCHANGED <<lead, disk, shots, analyses, overlapped>>

\* enrich_lead up to its flush: the screenshot file replaces one on disk at
\* once; the stored signals and screenshots are read now, without a lock.
enrich_lead(e) ==
  /\ work[e].at = "open" /\ analyses < MaxAnalyses
  /\ \E page \in Pages, bio, taken \in BOOLEAN,
        old \in IF lead.artifacts = {} THEN {NoShot} ELSE lead.artifacts :
       LET now == [work[e].read EXCEPT !.signals = lead.signals, !.artifacts = lead.artifacts]
           l == Resolve(now, bio)
           shot == taken /\ WantsShot(l, page) /\ shots < MaxShots IN
       /\ work' = [work EXCEPT ![e] = Session("analysed", now,
                     [StoreEmail(StoreSignals(l, page, analyses + 1), page) EXCEPT
                        !.status = "enriched",
                        !.artifacts = IF shot THEN (@ \ {old}) \cup {shots + 1} ELSE @],
                     FALSE)]
       /\ shots' = IF shot THEN shots + 1 ELSE shots
       /\ disk' = IF shot THEN (disk \ {old}) \cup {shots + 1} ELSE disk
  /\ analyses' = analyses + 1
  /\ UNCHANGED <<lead, overlapped>>

\* A scoring task or request opens a session on the committed row.
OpenForScore(e) ==
  /\ work[e] = Closed /\ lead.status # "new"
  /\ work' = [work EXCEPT ![e] = Session("rated", lead,
                [lead EXCEPT !.score = compute_score(lead), !.status = "scored"], FALSE)]
  /\ UNCHANGED <<lead, disk, shots, analyses, overlapped>>

\* The statements of a flush over the row as committed now: the columns that
\* differ from what was read, and the rows deleted and added.
Merged(now, read, row) ==
  [c \in DOMAIN now |->
     IF c \in {"signals", "artifacts"} THEN (now[c] \ (read[c] \ row[c])) \cup (row[c] \ read[c])
     ELSE IF row[c] # read[c] THEN row[c] ELSE now[c]]

\* The UPDATE of the lead comes first and waits for a session that has
\* flushed; a row another session has deleted meanwhile is no error.
Flush(e) ==
  /\ work[e].at \in {"analysed", "rated"}
  /\ \A o \in Enrichers : work[o].at # "flushed"
  /\ work' = [work EXCEPT ![e] = Session("flushed", work[e].read,
                Merged(lead, work[e].read, work[e].row), work[e].stale)]
  /\ UNCHANGED <<lead, disk, shots, analyses, overlapped>>

\* The batch scores in the session that enriched.
score_lead(e) ==
  /\ work[e].at = "flushed"
  /\ work' = [work EXCEPT ![e] = Session("flushed", work[e].read,
                [work[e].row EXCEPT !.score = compute_score(work[e].row), !.status = "scored"],
                work[e].stale)]
  /\ UNCHANGED <<lead, disk, shots, analyses, overlapped>>

\* The step commits; the signals others have read may be gone.
Commit(e) ==
  /\ work[e].at = "flushed"
  /\ lead' = work[e].row
  /\ LET replaced == work[e].row.signals # lead.signals IN
     /\ work' = [o \in Enrichers |->
          IF o = e THEN Closed
          ELSE IF replaced /\ work[o].at = "analysed"
               THEN Session("analysed", work[o].read, work[o].row, TRUE) ELSE work[o]]
     /\ overlapped' = IF replaced THEN work[e].stale ELSE overlapped
  /\ UNCHANGED <<disk, shots, analyses>>

\* The step raises, or get_db closes the request's session.
Rollback(e) ==
  /\ work[e] # Closed
  /\ work' = [work EXCEPT ![e] = Closed]
  /\ UNCHANGED <<lead, disk, shots, analyses, overlapped>>

Next ==
  \E e \in Enrichers : \/ Open(e) \/ enrich_lead(e) \/ OpenForScore(e) \/ Flush(e)
                       \/ score_lead(e) \/ Commit(e) \/ Rollback(e)

Spec == Init /\ [][Next]_vars

---------------------------------------------------------------------------
Types(l) == {s[1][1] : s \in l.signals}

TypeOK ==
  /\ lead.website \in {"none", "instagram", "social", "site"}
  /\ lead.instagram \in BOOLEAN /\ lead.email \in {"none", "own", "found"}
  /\ lead.status \in {"new", "enriched", "scored"}
  /\ lead.score \in -1..100
  /\ Types(lead) \subseteq SignalTypes
  /\ lead.artifacts \subseteq 1..MaxShots /\ disk \subseteq 1..MaxShots /\ shots \in 0..MaxShots

(* The signals of a lead come from one analysis: the site either answered, *)
(* failed or does not exist, and the findings about a page (and the        *)
(* Instagram-only mark) agree with that.                                   *)
OneAnalysis(l) ==
  /\ \A s, t \in l.signals : s[2] = t[2]
  /\ Cardinality(Types(l) \cap {"has_website", "website_error", "no_website"}) = 1
  /\ "has_website" \in Types(l) <=>
       Cardinality(Types(l) \cap {"no_custom_domain", "has_custom_domain"}) = 1
  /\ "instagram_only" \in Types(l) => "no_website" \in Types(l)
  /\ Types(l) \cap {"website_error", "no_website"} # {} =>
       Types(l) \cap {"slow_load", "no_ssl", "weak_seo", "outdated_website"} = {}

(* However often and by however many sessions a lead is enriched, its      *)
(* committed signals are those of one analysis, unless the session that    *)
(* stored them had read the old ones before another session replaced them; *)
(* the next enrichment that overlaps no other one puts that right.         *)
SignalsOfOneAnalysis == lead.status # "new" /\ ~overlapped => OneAnalysis(lead)

(* The old signals are always cleared first (enrichment_service.py:282):   *)
(* not so when two enrichments overlap.                                    *)
OldSignalsCleared == lead.status # "new" => OneAnalysis(lead)

(* A lead with a bad website outscores the same business with none         *)
(* (tests/test_scoring.py test_bad_website_beats_no_website).              *)
BadSiteBeatsNoSite ==
  LET bad == {"outdated_website", "website_error", "no_custom_domain", "no_mobile_friendly",
              "no_ssl", "slow_load", "weak_seo", "no_visible_email"}
      without == [lead EXCEPT !.signals = Stored({Signal("no_website")}, 0)] IN
  (lead.status = "scored" /\ Types(lead) \cap bad # {}) => compute_score(lead) > compute_score(without)

(* With no session open the disk holds exactly the screenshots the lead    *)
(* points to ("Remove previous screenshot artifact to avoid disk bloat").  *)
DiskHoldsArtifact == (\A e \in Enrichers : work[e] = Closed) => disk = lead.artifacts
===========================================================================
