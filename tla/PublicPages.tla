----------------------------- MODULE PublicPages -----------------------------
(***************************************************************************)
(* The two pages that need no wallet.  frontend/app/page.tsx, the landing  *)
(* page, loads the demo stream and its revealed terms again and again; the *)
(* loads are not ordered, so a slow one may finish after a later one.      *)
(* frontend/app/verify/[id]/page.tsx compares a text of terms with the     *)
(* stream's commitment; the text comes from a link, from the reveal of the *)
(* demo stream, or from the visitor's keyboard.                            *)
(***************************************************************************)
EXTENDS ChainView

CONSTANTS
    Slots,    \* bound: loads of the landing page that are under way at once
    IsDemo    \* whether the stream is the demo stream

ASSUME PublicPagesAssumption == IsDemo \in BOOLEAN

VARIABLES
    data,      \* landing: what is shown, or None
    error,     \* landing: "Could not reach Coston2"
    loads,     \* landing: the loads under way, by slot
    verify,    \* verify: the React state of the page
    lookup,    \* verify: how far the look-up of the reveal is
    link       \* a link that was copied from the page, with what it showed

landingVars == <<data, error, loads>>
verifyVars  == <<verify, lookup, link>>

------------------------------------------------------------------------------
(* The landing page *)

Free == [step |-> "free"]

LandingInit ==
    /\ data = None
    /\ error = FALSE
    /\ loads = [slot \in Slots |-> Free]

\* The effect on mount, and the interval.  Without the interval there is one
\* load and no more.
LoadOnce(slot) == loads[slot] = Free /\ data = None
LoadDue(slot) == loads[slot] = Free

StartLoad(slot) ==
    /\ LoadDue(slot)
    /\ loads' = [loads EXCEPT ![slot] = [step |-> "stream"]]
    /\ UNCHANGED <<chainVars, data, error>>

LoadStream(slot) ==
    /\ loads[slot].step = "stream"
    /\ loads' = [loads EXCEPT ![slot] = [step |-> "head", stream |-> chain]]
    /\ UNCHANGED <<chainVars, data, error>>

\* readTokenMeta runs beside readRevealedTerms; the token of a stream that does
\* not exist is the zero address and cannot be read.
LoadHead(slot) ==
    /\ loads[slot].step = "head"
    /\ loads[slot].stream # Absent
    /\ loads' = [loads EXCEPT ![slot] =
                   [step |-> "logs", stream |-> loads[slot].stream, head |-> clock]]
    /\ UNCHANGED <<chainVars, data, error>>

\* The terms are shown only if they hash to the commitment.
LoadLogs(slot) ==
    LET load == loads[slot]
    IN  /\ load.step = "logs"
        /\ Served(load.head)
        /\ data' = [stream |-> load.stream, head |-> load.head,
                    terms |-> Found(load.head) /\ load.stream.commitment = Commitment]
        /\ error' = FALSE
        /\ loads' = [loads EXCEPT ![slot] = Free]
        /\ UNCHANGED chainVars

LoadRefused(slot) ==
    /\ \/ loads[slot].step = "logs" /\ ~Served(loads[slot].head)
       \/ loads[slot].step = "head" /\ loads[slot].stream = Absent
    /\ error' = TRUE
    /\ loads' = [loads EXCEPT ![slot] = Free]
    /\ UNCHANGED <<chainVars, data>>

LoadErrs(slot) ==
    /\ loads[slot] # Free
    /\ error' = TRUE
    /\ loads' = [loads EXCEPT ![slot] = Free]
    /\ Fault
    /\ UNCHANGED data

Loading(slot) ==
    \/ StartLoad(slot)
    \/ LoadStream(slot)
    \/ LoadHead(slot)
    \/ LoadLogs(slot)
    \/ LoadRefused(slot)

LandingStep == \E slot \in Slots : Loading(slot) \/ LoadErrs(slot)

------------------------------------------------------------------------------
(* The verify page *)

Texts == {"", "not hex", "terms", "other terms"}

\* keccak256 of the text, if it is hex.
computed(text) ==
    CASE text = "terms" -> Commitment
      [] text = "other terms" -> "another hash"
      [] OTHER -> None

verdict(stream, text) ==
    IF computed(text) = None THEN "absent"
    ELSE IF stream # None /\ computed(text) = stream.commitment THEN "match"
    ELSE "mismatch"

\* The seed: what is in the link, and only without one the demo reveal.
SeedAnyway(query) == IsDemo
SeedFromReveal(query) == query = "" /\ IsDemo

NoLookup  == [step |-> "none"]
NoHeadYet == [step |-> "head"]

Opening(query) ==
    /\ verify' = [step |-> "stream", stream |-> None, error |-> FALSE,
                  termsHex |-> query, query |-> query, edited |-> FALSE]
    /\ lookup' = IF SeedFromReveal(query) THEN NoHeadYet ELSE NoLookup

VerifyInit ==
    /\ verify = [step |-> "stream", stream |-> None, error |-> FALSE,
                 termsHex |-> "", query |-> "", edited |-> FALSE]
    /\ lookup = IF SeedFromReveal("") THEN NoHeadYet ELSE NoLookup
    /\ link = None

VerifyStream ==
    /\ verify.step = "stream"
    /\ verify' = IF chain = Absent
                 THEN [verify EXCEPT !.step = "done", !.error = TRUE]
                 ELSE [verify EXCEPT !.step = "meta", !.stream = chain]
    /\ UNCHANGED <<chainVars, lookup, link>>

VerifyMeta ==
    /\ verify.step = "meta"
    /\ verify' = [verify EXCEPT !.step = "done"]
    /\ UNCHANGED <<chainVars, lookup, link>>

VerifyFails ==
    /\ verify.step # "done"
    /\ verify' = [verify EXCEPT !.step = "done", !.error = TRUE]
    /\ Fault
    /\ UNCHANGED <<lookup, link>>

LookupHead ==
    /\ lookup = NoHeadYet
    /\ lookup' = [step |-> "logs", head |-> clock]
    /\ UNCHANGED <<chainVars, verify, link>>

\* The terms that were found go into the box, whatever it holds by now.
LookupLogs ==
    /\ lookup.step = "logs"
    /\ lookup' = NoLookup
    /\ verify' = IF Served(lookup.head) /\ Found(lookup.head)
                 THEN [verify EXCEPT !.termsHex = "terms"]
                 ELSE verify
    /\ UNCHANGED <<chainVars, link>>

\* A rejected lookup reaches nobody.
LookupFails ==
    /\ lookup # NoLookup
    /\ lookup' = NoLookup
    /\ Fault
    /\ UNCHANGED <<verify, link>>

\* The box is there once the stream is.
Type(text) ==
    /\ verify.stream # None
    /\ verify' = [verify EXCEPT !.termsHex = text, !.edited = TRUE]
    /\ UNCHANGED <<chainVars, lookup, link>>

\* shareUrl: the button is there for a text that is hex.
CopyLink ==
    /\ verify.stream # None
    /\ computed(verify.termsHex) # None
    /\ link' = [query |-> verify.termsHex, verdict |-> verdict(verify.stream, verify.termsHex)]
    /\ UNCHANGED <<chainVars, verify, lookup>>

OpenLink ==
    /\ link # None
    /\ Opening(link.query)
    /\ UNCHANGED <<chainVars, link>>

VerifyStep ==
    \/ VerifyStream \/ VerifyMeta \/ VerifyFails
    \/ LookupHead \/ LookupLogs \/ LookupFails
    \/ \E text \in Texts : Type(text)
    \/ CopyLink
    \/ OpenLink
==============================================================================
