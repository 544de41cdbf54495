---------------------------- MODULE RttEvidence ----------------------------
(***************************************************************************)
(* The request times of src/web/hls-weak-network-policy.js: how the normal *)
(* profile learns what is usual, when slow requests enter the "rtt" class  *)
(* of the weak profile, and the evidence that its exit asks for besides    *)
(* RecoveryEvidence: requests as fast as a known reference, or, when none  *)
(* is known any more, a reference that is learned and validated anew.      *)
(*                                                                         *)
(* An overhead is a level of 100 ms.  What is learned is a mean of several *)
(* requests; here it is any level (in a requalification, any between the   *)
(* least and the greatest it collected).  A context is known by its kind   *)
(* of request, whole segments or parts, and is lost with its scope (level  *)
(* and discontinuity).  Stamps are ages in ticks, as in RecoveryEvidence.  *)
(***************************************************************************)
EXTENDS Integers

CONSTANTS
    Overheads, Cap,           \* levels of the samples; RTT_REQUALIFY_OVERHEAD_CAP_MS
    Learn,                    \* 4, the values that make a baseline
    Slow,                     \* 4, the slow requests that enter
    Requests,                 \* RTT_RECOVERY_REQUESTS
    Collect, Validate, Span,  \* RTT_REQUALIFY_*: 8 requests over 6 s, then 4
    RequestGap,               \* 5 s
    Budget,                   \* evidenceMaxAgeMs
    MaxBaseline               \* RTT_BASELINE_MAX_AGE_MS

ASSUME RttAssumption ==
    /\ Overheads \subseteq Nat /\ Cap \in Nat
    /\ {Learn, Slow, Requests, Collect, Validate, Span, RequestGap, Budget, MaxBaseline}
         \subseteq Nat \ {0}
    /\ Requests <= Collect + Validate /\ Span <= Budget * Collect
    /\ Budget < MaxBaseline /\ RequestGap < MaxBaseline

VARIABLES
    class,            \* weakNetworkClass
    scope, kind,      \* requestScope, requestKind
    contexts,         \* requestContexts: number of values (at most Learn), baseline, age
    slow,             \* requestOverheadSamples
    requestAge,       \* lastRequestSampleAt
    reference,        \* rttReference
    improved, goodAge,\* rttRecoverySamples, rttRecoveryAt
    candidate,        \* rttRequalification
    streak            \* history: good requests of one kind and scope in a row

evidenceVars == <<improved, goodAge, candidate>>

rttVars == <<class, scope, kind, contexts, slow, requestAge, reference, evidenceVars, streak>>

Kinds == {"whole", "part"}
Scopes == 0 .. 1
NoLevel == -1
Levels == 0 .. Cap
RttOld == MaxBaseline + 1
MaxCandidate == Budget * (Collect + Validate + 2)

Empty == [n |-> 0, base |-> NoLevel, age |-> 0]
NoReference == [kind |-> "whole", scope |-> 0, base |-> NoLevel]
NoCandidate == [n |-> 0, lo |-> Cap, hi |-> 0, mean |-> NoLevel, valid |-> 0, start |-> 0,
                last |-> 0]

RttTypeOK ==
    /\ class \in {"no", "rtt", "loss"} /\ scope \in Scopes /\ kind \in Kinds
    /\ contexts \in
         [Kinds -> [n : 0 .. Learn, base : {NoLevel} \cup Levels, age : 0 .. RttOld]]
    /\ slow \in 0 .. Slow /\ requestAge \in 0 .. RttOld
    /\ reference \in [kind : Kinds, scope : Scopes, base : {NoLevel} \cup Levels]
    /\ improved \in 0 .. Requests /\ goodAge \in 0 .. RttOld
    /\ candidate \in [n : 0 .. Collect, lo : Levels, hi : Levels, mean : {NoLevel} \cup Levels,
                      valid : 0 .. Validate - 1, start : 0 .. MaxCandidate + 1,
                      last : 0 .. RttOld]
    /\ streak \in 0 .. Collect + Validate

RttInit ==
    /\ class = "no" /\ scope = 0 /\ kind = "whole"
    /\ contexts = [k \in Kinds |-> Empty] /\ slow = 0 /\ requestAge = RttOld
    /\ reference = NoReference
    /\ improved = 0 /\ goodAge = RttOld /\ candidate = NoCandidate
    /\ streak = 0

-----------------------------------------------------------------------------

OneUp(n, most) == IF n < most THEN n + 1 ELSE most

Elevated(level, base) == base # NoLevel /\ level >= 3 /\ level >= base + 2

Near(level, base) == level <= base + 1

\* markWeakEntry: whole segments are the preferred reference.
EnterWeak(to, known, last, at) ==
    LET k == IF known["whole"].base # NoLevel THEN "whole" ELSE last
    IN  /\ class' = to
        /\ reference' = [kind |-> k, scope |-> at, base |-> known[k].base]
        /\ improved' = 0 /\ goodAge' = RttOld

\* What is known of requests goes with the reference it rests on.
Keep(kept) ==
    /\ reference' = IF kept THEN reference ELSE NoReference
    /\ improved' = IF kept THEN improved ELSE 0
    /\ goodAge' = IF kept THEN goodAge ELSE RttOld

-----------------------------------------------------------------------------
(* sampleRequestOverhead in the normal profile *)

\* A slow request under pressure is counted; one that is not slow is learned from if the
\* buffer and the bandwidth are good.  `apt' says that the state of playback is the right
\* one for either.
Classify(k, at, known, kept, level, headroom, apt) ==
    LET up == Elevated(level, known[k].base)
        again == k = kind /\ at = scope /\ requestAge <= RequestGap
    IN  /\ slow' = IF ~(up /\ headroom /\ apt) THEN 0
                   ELSE IF again THEN OneUp(slow, Slow) ELSE 1
        /\ \E mean \in Levels :
              contexts' = IF up \/ ~headroom \/ ~apt THEN known
                          ELSE [known EXCEPT ![k] =
                                  [n |-> OneUp(@.n, Learn), age |-> 0,
                                   base |-> IF @.n + 1 < Learn THEN @.base ELSE mean]]
        /\ IF slow' = Slow THEN EnterWeak("rtt", known, k, at)
           ELSE Keep(kept) /\ UNCHANGED class
        /\ UNCHANGED streak

-----------------------------------------------------------------------------
(* sampleRequestOverhead in the weak profile *)

\* Mutant: every comparable request keeps the reference young.
RefreshedAlways(ctx, good) == [ctx EXCEPT !.age = 0]

Refreshed(ctx, good) == IF good THEN [ctx EXCEPT !.age = 0] ELSE ctx

\* Mutant: a gap does not end the run.
ContinuesAlways == TRUE

Continues == goodAge <= Budget

\* History: how long the present run of good requests is.
Run(k, at, good) ==
    IF ~good THEN 0
    ELSE IF k = kind /\ at = scope /\ requestAge <= Budget
         THEN OneUp(streak, Collect + Validate)
    ELSE 1

\* The request is of the reference's kind and scope: as fast as it, or not.
Compare(k, at, known, level, headroom) ==
    LET good == headroom /\ Near(level, reference.base)
    IN  /\ improved' = IF ~good THEN 0 ELSE IF Continues THEN OneUp(improved, Requests) ELSE 1
        /\ goodAge' = IF good THEN 0 ELSE RttOld
        /\ contexts' = [known EXCEPT ![k] = Refreshed(@, good)]
        /\ candidate' = NoCandidate
        /\ streak' = Run(k, at, good)
        /\ UNCHANGED reference

\* The candidate that this request continues, or a new one.
Continued == candidate.n > 0 /\ candidate.last <= Budget /\ candidate.start <= MaxCandidate

Collected(c, level) ==
    LET n == OneUp(c.n, Collect)
        lo == IF level < c.lo THEN level ELSE c.lo
        hi == IF level > c.hi THEN level ELSE c.hi
    IN  {[c EXCEPT !.n = n, !.lo = lo, !.hi = hi, !.last = 0, !.mean = mean] :
           mean \in IF n = Collect /\ c.start >= Span THEN lo .. hi ELSE {NoLevel}}

\* Mutants: what was collected is promoted without validation, or after one more.
ValidatedAtOnce(c) == TRUE
ValidatedLate(c) == c.valid = Validate

Validated(c) == c.valid + 1 = Validate

\* A validated candidate is a reference that this evidence has already met.
Promote(c, k, at, known) ==
    /\ contexts' = [known EXCEPT ![k] = [n |-> Learn, base |-> c.mean, age |-> 0]]
    /\ reference' = [kind |-> k, scope |-> at, base |-> c.mean]
    /\ improved' = Requests /\ goodAge' = 0
    /\ candidate' = NoCandidate

\* Evidence of another kind ends what there was: sampleRttRequalification.
Requalify(k, at, known, kept, same, level, headroom, apt) ==
    LET eligible == k = "whole" /\ level <= Cap /\ headroom /\ apt
        c == IF same /\ Continued THEN candidate ELSE NoCandidate
        drop == ~eligible \/ (c.mean # NoLevel /\ ~Near(level, c.mean))
    IN  /\ streak' = Run(k, at, eligible)
        /\ IF c.mean # NoLevel /\ ~drop /\ Validated(c) THEN Promote(c, k, at, known)
           ELSE /\ improved' = 0 /\ goodAge' = RttOld
                /\ contexts' = known
                /\ reference' = IF kept THEN reference ELSE NoReference
                /\ IF drop THEN candidate' = NoCandidate
                   ELSE IF c.mean = NoLevel THEN candidate' \in Collected(c, level)
                   ELSE candidate' = [c EXCEPT !.valid = @ + 1, !.last = 0]

-----------------------------------------------------------------------------
(* One request *)

Stale(ctx) == ctx.age > MaxBaseline /\ (ctx.base # NoLevel \/ class = "no")

\* Mutant: a stale context leaves the reference.
KeptInScope(k, at, stale) == at = scope

Kept(k, at, stale) == at = scope /\ ~(stale /\ reference.kind = k)

KnownIn(at) == IF at = scope THEN contexts ELSE [k \in Kinds |-> Empty]

\* A new scope or a stale context takes the reference that rests on it along.
SampleRequest(k, at, level, headroom, apt) ==
    LET inScope == KnownIn(at)
        stale == Stale(inScope[k])
        known == IF stale THEN [inScope EXCEPT ![k] = Empty] ELSE inScope
        same == at = scope /\ ~stale
        kept == Kept(k, at, stale)
        comparable ==
            kept /\ reference.base # NoLevel /\ reference.kind = k /\ reference.scope = at
    IN  /\ scope' = at /\ kind' = k /\ requestAge' = 0
        /\ IF class = "no"
           THEN /\ Classify(k, at, known, kept, level, headroom, apt)
                /\ candidate' = IF at = scope THEN candidate ELSE NoCandidate
           ELSE /\ slow' = 0 /\ UNCHANGED class
                /\ IF comparable THEN Compare(k, at, known, level, headroom)
                   ELSE IF class = "rtt"
                   THEN Requalify(k, at, known, kept, same, level, headroom, apt)
                   ELSE /\ contexts' = known /\ Keep(kept) /\ streak' = 0
                        /\ candidate' = IF at = scope THEN candidate ELSE NoCandidate

-----------------------------------------------------------------------------
(* What else happens *)

\* A request while paused, seeking or offline; or an interruption of playback, which
\* leaves the count of slow requests alone.
RttInterrupt(sampled) ==
    /\ slow' = IF sampled THEN 0 ELSE slow
    /\ improved' = 0 /\ goodAge' = RttOld /\ candidate' = NoCandidate /\ streak' = 0
    /\ UNCHANGED <<class, scope, kind, contexts, requestAge, reference>>

\* markNetworkError; for 15 s after it no request has headroom.  A fatal error upgrades an
\* rtt profile.
RttNetworkError(fatal) ==
    /\ slow' = 0 /\ candidate' = NoCandidate
    /\ IF fatal /\ class # "loss" THEN EnterWeak("loss", contexts, kind, scope)
       ELSE UNCHANGED <<class, reference, improved, goodAge>>
    /\ UNCHANGED <<scope, kind, contexts, requestAge, streak>>

\* Another manifest: resetRequestContext.
RttNewSource ==
    /\ contexts' = [k \in Kinds |-> Empty] /\ slow' = 0 /\ requestAge' = RttOld
    /\ reference' = NoReference
    /\ improved' = 0 /\ goodAge' = RttOld /\ candidate' = NoCandidate /\ streak' = 0
    /\ UNCHANGED <<class, scope, kind>>

\* Another cause of the weak profile.
EnterLoss ==
    /\ class = "no"
    /\ EnterWeak("loss", contexts, kind, scope)
    /\ UNCHANGED <<scope, kind, contexts, slow, requestAge, candidate, streak>>

Earned == improved = Requests /\ goodAge <= Budget /\ reference.base # NoLevel

RttExit ==
    /\ class = "loss" \/ (class = "rtt" /\ Earned)
    /\ class' = "no" /\ slow' = 0 /\ requestAge' = RttOld
    /\ UNCHANGED <<scope, kind, contexts, reference, evidenceVars, streak>>

RttTick ==
    /\ contexts' = [k \in Kinds |-> IF contexts[k].n = 0 THEN contexts[k]
                                    ELSE [contexts[k] EXCEPT !.age = OneUp(@, RttOld)]]
    /\ requestAge' = OneUp(requestAge, RttOld) /\ goodAge' = OneUp(goodAge, RttOld)
    /\ candidate' = IF candidate.n = 0 THEN candidate
                    ELSE [candidate EXCEPT !.start = OneUp(@, MaxCandidate + 1),
                                           !.last = OneUp(@, RttOld)]
    /\ UNCHANGED <<class, scope, kind, slow, reference, improved, streak>>

RttNext ==
    \/ \E k \in Kinds, at \in Scopes, level \in Overheads, headroom, apt \in BOOLEAN :
          SampleRequest(k, at, level, headroom, apt)
    \/ \E b \in BOOLEAN : RttInterrupt(b) \/ RttNetworkError(b)
    \/ RttNewSource \/ EnterLoss \/ RttExit \/ RttTick

RttSpec == RttInit /\ [][RttNext]_rttVars

-----------------------------------------------------------------------------
(* What the policy promises *)

\* Requests are compared with their like only: the reference of a weak profile is the
\* baseline that the present scope has for its kind.
ReferenceIsCurrent ==
    class # "no" /\ reference.base # NoLevel =>
        reference.scope = scope /\ contexts[reference.kind].base = reference.base

\* The evidence of an exit is a run of good requests of one kind and scope without a bad
\* one, an interruption or a gap in it ("evidence for a different request shape cannot
\* finish an almost-ready exit", hls-weak-network-policy.js:324).
EvidenceIsARun == class = "rtt" /\ improved = Requests => streak >= Requests

\* A reference that appears within the profile was collected and then validated by later
\* requests ("collected observations are not yet a healthy reference", :361).
ReferenceIsValidated ==
    [][class = "rtt" /\ class' = class /\ reference' # reference
         /\ reference'.base # NoLevel =>
           streak' >= Collect + Validate]_rttVars

-----------------------------------------------------------------------------
(* A reference that the line no longer meets does not hold the viewer for good *)

\* From some time on whole segments of one scope are requested every tick, at the cap.
Steady ==
    \/ SampleRequest("whole", scope, Cap, TRUE, TRUE) /\ requestAge > 0
    \/ RttExit
    \/ RttTick /\ requestAge = 0

RttProfileCanBeLeft ==
    <>[][Steady]_rttVars /\ []<><<RttTick>>_rttVars => []<>(class = "rtt" => Earned)
=============================================================================
