----------------------------- MODULE WebClient -----------------------------
(***************************************************************************)
(* The RSVP page of the web client: one browser, its query cache and its   *)
(* form, against a server that other devices and the admin change too      *)
(* (components/rsvp, lib/api/rsvp, lib/api/session, routes/_guest).        *)
(*                                                                         *)
(* A call is sent, served and delivered in three steps, and the calls of a *)
(* browser overtake each other.  The cache outlives the form, the form is  *)
(* seeded from it, and a call outlives both.                               *)
(* Abstracted: of a member's answer the scope is kept and whether there is *)
(* an age, the one field that a member's kind can hide, and of the         *)
(* household's half only the direction, "none" or one of Directions, which *)
(* stands for every field typed for the household; what else a save can be *)
(* refused for is in sight while the member comes, and not typed here; a   *)
(* login or logout is one step, for its screen waits for it; at most one   *)
(* call of each kind, and MaxCalls altogether, are under way.              *)
(***************************************************************************)
EXTENDS Naturals, FiniteSets, SequencesExt

CONSTANTS
    Households,     \* 1 .. n; guest h is the one invited with household h
    Starts,         \* the lists there are at first: who is a child, with an age,
                    \* and how many guest ids have been given out
    Scopes,         \* the scopes somebody chooses
    Directions,     \* the transport directions somebody chooses
    MaxGuests,      \* guest ids there are at most
    MaxSessions,    \* logins there are at most
    MaxCalls,       \* calls under way at once, at most
    MaxDisturbances \* changes made elsewhere and calls lost, together at most

AllScopes == {"no", "church_only", "party_only", "both"}

ASSUME WebClientAssumption ==
    /\ Households = 1 .. Cardinality(Households)
    /\ Cardinality(Households) \in 1 .. MaxGuests
    /\ Starts \subseteq [children : SUBSET Households, guests : Cardinality(Households) .. MaxGuests]
    /\ Scopes \subseteq AllScopes /\ Directions \subseteq {"needed", "offered"}
    /\ {MaxGuests, MaxSessions, MaxCalls, MaxDisturbances} \subseteq Nat

VARIABLES
    stored,     \* the server's answer of each household
    guests,     \* how many guest ids have been given out
    closed,     \* whether the deadline has passed
    sessions,   \* the sessions the server has issued to this browser
    me,         \* the household the client believes in, 0 for nobody
    cache,      \* the cached answer of the query "rsvp"
    form,       \* the RSVP form, if it is mounted
    calls,      \* the call of each kind that is under way
    disturbed   \* changes made elsewhere and calls lost so far

server == <<stored, guests, closed, sessions>>
vars   == <<stored, guests, closed, sessions, me, cache, form, calls, disturbed>>

MemberAnswer == AllScopes \cup {"nil"}
Half         == Directions \cup {"none"}

Kinds == {"fetch", "save", "add", "remove"}

-----------------------------------------------------------------------------
(* What is shown: the answer, and the draft over it.                       *)

NoAnswer == [household |-> 0, members |-> <<>>, half |-> "none", submitted |-> FALSE,
             editable |-> FALSE, canAdd |-> FALSE]

Ids(answer)          == [i \in DOMAIN answer.members |-> answer.members[i].id]
MemberOf(answer, id) == answer.members[SelectLastInSeq(answer.members, LAMBDA m : m.id = id)]

draftFrom(answer) ==
    [half |-> answer.half,
     members |-> [id \in Range(Ids(answer)) |-> MemberOf(answer, id).attending],
     ages |-> {id \in Range(Ids(answer)) : MemberOf(answer, id).aged}]

\* Variant: the draft is seeded anew.
ReseedWholesale(current, answer) == draftFrom(answer)

\* What was typed stays, for the members the answer still has.
reseedDraft(current, answer) ==
    [current EXCEPT
        !.members = [id \in Range(Ids(answer)) |->
            IF id \in DOMAIN current.members THEN current.members[id]
            ELSE draftFrom(answer).members[id]],
        !.ages = {id \in Range(Ids(answer)) :
            IF id \in DOMAIN current.members THEN id \in @ ELSE id \in draftFrom(answer).ages}]

\* Variant: only members the draft does not know are missing.
MissingUnknown(draft, answer) == {id \in Range(Ids(answer)) : id \notin DOMAIN draft.members}

missingAnswers(draft, answer) ==
    {id \in Range(Ids(answer)) :
        id \notin DOMAIN draft.members \/ draft.members[id] = "nil"}

attendsBoth(draft, answer) ==
    \E id \in Range(Ids(answer)) \cap DOMAIN draft.members : draft.members[id] = "both"

\* In the order of the answer; "no" is a default for the type only.  An age is
\* sent whether its field is shown or not.
toRequest(draft, answer) ==
    [half |-> draft.half, ages |-> draft.ages \cap Range(Ids(answer)),
     members |-> [i \in DOMAIN answer.members |->
        LET id == answer.members[i].id
        IN  [id |-> id,
             attending |-> IF id \in DOMAIN draft.members /\ draft.members[id] # "nil"
                           THEN draft.members[id] ELSE "no"]]]

NoForm == [mounted |-> FALSE, draft |-> draftFrom(NoAnswer), seeded |-> <<>>,
           summary |-> FALSE, error |-> "none", at |-> 0, closedWhileOpen |-> FALSE]

\* The last refusal, and the member whose age it is about, 0 for none.
Told(shown, code, guest) == [shown EXCEPT !.error = code, !.at = guest]

\* The form's first render.
Mounted(answer) ==
    [NoForm EXCEPT !.mounted = TRUE, !.draft = draftFrom(answer),
                   !.seeded = Ids(answer), !.summary = answer.submitted]

\* Variant: the change of the member set is noted, the draft stays.
RenderedAsBefore(answer) ==
    IF form.mounted THEN Told([form EXCEPT !.seeded = Ids(answer)], "none", 0) ELSE form

\* A render after the answer has changed.
Rendered(answer) ==
    IF form.mounted /\ form.seeded # Ids(answer)
    THEN Told([form EXCEPT !.seeded = Ids(answer), !.draft = reseedDraft(@, answer)], "none", 0)
    ELSE form

isReadOnly == ~cache.editable \/ form.error = "rsvp_closed" \/ form.closedWhileOpen
Editing    == form.mounted /\ ~isReadOnly /\ ~form.summary

\* A card has an age field for a child who comes to something.
ShowsAge(id) ==
    /\ \E member \in Range(cache.members) : member.id = id /\ member.child
    /\ id \in DOMAIN form.draft.members /\ form.draft.members[id] \notin {"nil", "no"}

-----------------------------------------------------------------------------
(* Calls.                                                                  *)

NoRequest  == [half |-> "none", ages |-> {}, members |-> <<>>]
NoResponse == [code |-> "none", answer |-> NoAnswer, guest |-> 0]
Idle == [stage |-> "none", session |-> 0, request |-> NoRequest, guest |-> 0,
         response |-> NoResponse, ours |-> FALSE]

\* The browser attaches the cookie it has when the call is sent.
Sent(kind, request, guest) ==
    [Idle EXCEPT !.stage = "sent", !.session = Len(sessions), !.request = request,
                 !.guest = guest, !.ours = kind \in {"save", "add"}]

Start(kind, request, guest) == calls' = [calls EXCEPT ![kind] = Sent(kind, request, guest)]

MayStart(kind) ==
    /\ calls[kind].stage = "none"
    /\ Cardinality({other \in Kinds : calls[other].stage # "none"}) < MaxCalls

Answered(kind, response) ==
    [Idle EXCEPT !.stage = "served", !.response = response, !.ours = calls[kind].ours]

\* The form that was waiting for the answer of a save or an addition is gone.
Abandoned == [kind \in Kinds |-> [calls[kind] EXCEPT !.ours = FALSE]]

\* The client learns that its session is over: nobody is logged in, the form goes.
VisitEnds(kind) ==
    /\ me' = 0
    /\ form' = NoForm
    /\ calls' = [Abandoned EXCEPT ![kind] = Idle]
    /\ UNCHANGED <<server, cache, disturbed>>

-----------------------------------------------------------------------------
(* The guest at the browser.                                               *)

Init ==
    /\ \E start \in Starts :
          /\ stored = [h \in Households |->
                [members |-> [id \in {h} |-> "nil"], children |-> start.children \cap {h},
                 ages |-> start.children \cap {h}, half |-> "none", submitted |-> FALSE]]
          /\ guests = start.guests
    /\ closed = FALSE
    /\ sessions = <<>>
    /\ me = 0 /\ cache = NoAnswer /\ form = NoForm
    /\ calls = [kind \in Kinds |-> Idle]
    /\ disturbed = 0

\* A login ends the session the browser presents; the cached answer stays.
LogIn(h) ==
    /\ me = 0
    /\ Len(sessions) < MaxSessions
    /\ me' = h
    /\ sessions' = Append([i \in DOMAIN sessions |-> [sessions[i] EXCEPT !.live = FALSE]],
                          [household |-> h, live |-> TRUE])
    /\ UNCHANGED <<stored, guests, closed, cache, form, calls, disturbed>>

LogOut ==
    /\ me # 0 /\ ~form.mounted
    /\ me' = 0
    /\ sessions' = [sessions EXCEPT ![Len(sessions)].live = FALSE]
    /\ UNCHANGED <<stored, guests, closed, cache, form, calls, disturbed>>

\* Nothing on screen uses the answer any more, and the cache drops it in time.
Forgotten ==
    /\ me = 0 /\ cache # NoAnswer /\ calls["fetch"].stage = "none"
    /\ cache' = NoAnswer
    /\ UNCHANGED <<server, me, form, calls, disturbed>>

\* A page that uses the answer mounts, or the connection is back.
Refresh ==
    /\ me # 0 /\ MayStart("fetch")
    /\ Start("fetch", NoRequest, 0)
    /\ UNCHANGED <<server, me, cache, form, disturbed>>

\* The RSVP page opens on what is cached, and fetches unless it just has.
Visit ==
    /\ me # 0 /\ ~form.mounted /\ cache # NoAnswer
    /\ form' = Mounted(cache)
    /\ \/ MayStart("fetch") /\ Start("fetch", NoRequest, 0)
       \/ UNCHANGED calls
    /\ UNCHANGED <<server, me, cache, disturbed>>

Leave ==
    /\ form.mounted
    /\ form' = NoForm
    /\ calls' = Abandoned
    /\ UNCHANGED <<server, me, cache, disturbed>>

Draft(draft) ==
    /\ form' = [form EXCEPT !.draft = draft]
    /\ UNCHANGED <<server, me, cache, calls, disturbed>>

updateMember(id, scope) ==
    /\ Editing /\ id \in DOMAIN form.draft.members
    /\ Draft([form.draft EXCEPT !.members[id] = scope])

setHouseholdScope(scope) ==
    /\ Editing /\ Len(cache.members) > 1
    /\ Draft([form.draft EXCEPT !.members = [id \in DOMAIN @ |-> scope]])

\* An id enters a set, or leaves it.
Marked(ids, id, on) == IF on THEN ids \cup {id} ELSE ids \ {id}

\* An age is typed, or emptied.
EnterAge(id, given) ==
    /\ Editing /\ ShowsAge(id)
    /\ Draft([form.draft EXCEPT !.ages = Marked(@, id, given)])

ChooseDirection(direction) ==
    /\ Editing /\ attendsBoth(form.draft, cache)
    /\ Draft([form.draft EXCEPT !.half = direction])

\* Every press clears the last error; it saves if nobody is missing.
Submit ==
    /\ Editing /\ MayStart("save")
    /\ form' = Told(form, "none", 0)
    /\ \/ /\ missingAnswers(form.draft, cache) = {}
          /\ Start("save", toRequest(form.draft, cache), 0)
       \/ missingAnswers(form.draft, cache) # {} /\ UNCHANGED calls
    /\ UNCHANGED <<server, me, cache, disturbed>>

\* Offered for a mismatch; a fetch that is under way is given up for the new one.
Reload ==
    /\ Editing /\ form.error = "member_set_mismatch"
    /\ Start("fetch", NoRequest, 0)
    /\ UNCHANGED <<server, me, cache, form, disturbed>>

ChangeAnswer ==
    /\ form.mounted /\ form.summary /\ ~isReadOnly
    /\ form' = [form EXCEPT !.summary = FALSE]
    /\ UNCHANGED <<server, me, cache, calls, disturbed>>

AddMember ==
    /\ Editing /\ cache.canAdd /\ MayStart("add")
    /\ Start("add", NoRequest, 0)
    /\ UNCHANGED <<server, me, cache, form, disturbed>>

\* Only a companion's card has the button.
RemoveMember(id) ==
    /\ Editing /\ MayStart("remove")
    /\ id \in Range(Ids(cache)) \ Households
    /\ Start("remove", NoRequest, id)
    /\ UNCHANGED <<server, me, cache, form, disturbed>>

-----------------------------------------------------------------------------
(* The server.                                                             *)

\* The members are listed by id: the i-th of them has i - 1 before it.
Nth(i, ids) == CHOOSE id \in ids : Cardinality({other \in ids : other <= id}) = i

rsvpResponse(h, answer) ==
    [household |-> h,
     members |-> [i \in 1 .. Cardinality(DOMAIN answer.members) |->
        LET id == Nth(i, DOMAIN answer.members)
        IN  [id |-> id, attending |-> answer.members[id],
             child |-> id \in answer.children, aged |-> id \in answer.ages]],
     half |-> answer.half, submitted |-> answer.submitted, editable |-> ~closed,
     canAdd |-> Cardinality(DOMAIN answer.members) = 1]

Respond(kind, response) ==
    /\ calls' = [calls EXCEPT ![kind] = Answered(kind, response)]
    /\ UNCHANGED <<closed, sessions, me, cache, form, disturbed>>

Refused(code) == [NoResponse EXCEPT !.code = code]

Served(kind) == calls[kind].stage = "sent" /\ sessions[calls[kind].session].live
HouseOf(kind) == sessions[calls[kind].session].household

\* No session any more: RequireHousehold refuses every kind of call.
Unauthenticated(kind) ==
    /\ calls[kind].stage = "sent" /\ ~sessions[calls[kind].session].live
    /\ Respond(kind, Refused("unauthenticated"))
    /\ UNCHANGED <<stored, guests>>

Show ==
    /\ Served("fetch")
    /\ Respond("fetch", [NoResponse EXCEPT !.code = "ok",
          !.answer = rsvpResponse(HouseOf("fetch"), stored[HouseOf("fetch")])])
    /\ UNCHANGED <<stored, guests>>

\* What a save says of each member it names.
ScopesIn(request) ==
    [id \in {member.id : member \in Range(request.members)} |->
        (CHOOSE member \in Range(request.members) : member.id = id).attending]

\* What is stored of it: what the rules leave of the household's half, and the
\* ages, those of children who stay away among them.
Normalized(row, scopes, ages, half) ==
    [row EXCEPT !.submitted = TRUE, !.members = scopes, !.ages = ages,
                !.half = IF "both" \in Range(scopes) THEN half ELSE "none"]

Exact(request, h) ==
    /\ Len(request.members) = Cardinality(DOMAIN stored[h].members)
    /\ {member.id : member \in Range(request.members)} = DOMAIN stored[h].members

\* The members who are no child and have an age all the same (ErrAgeOnAdult).
AgesOnAdults(request, h) == request.ages \ stored[h].children

\* Variant: the field is named without its member.
RefusedAtNobody(id) == Refused("validation_failed")

\* A refused field is named with its member, the first of them if there are more.
RefusedAt(id) == [Refused("validation_failed") EXCEPT !.guest = id]

Save ==
    LET h == HouseOf("save")
        request == calls["save"].request
        unfit == AgesOnAdults(request, h)
        after == Normalized(stored[h], ScopesIn(request), request.ages, request.half)
    IN
    /\ Served("save")
    /\ UNCHANGED guests
    /\ \/ /\ ~closed /\ Exact(request, h) /\ unfit = {}
          /\ stored' = [stored EXCEPT ![h] = after]
          /\ Respond("save", [NoResponse EXCEPT !.code = "ok", !.answer = rsvpResponse(h, after)])
       \/ /\ UNCHANGED stored
          /\ \/ closed /\ Respond("save", Refused("rsvp_closed"))
             \/ ~closed /\ ~Exact(request, h) /\ Respond("save", Refused("member_set_mismatch"))
             \/ /\ ~closed /\ Exact(request, h) /\ unfit # {}
                /\ Respond("save", RefusedAt(Nth(1, unfit)))

\* A companion is one more row of the guest table, and an adult.
Joined(members, id) ==
    [other \in DOMAIN members \cup {id} |-> IF other = id THEN "nil" ELSE members[other]]

With(h, id)    == [stored EXCEPT ![h].members = Joined(@, id)]
Without(h, id) == [stored EXCEPT ![h].members = Restrict(@, DOMAIN @ \ {id}),
                                 ![h].children = @ \ {id}, ![h].ages = @ \ {id}]

MayAdd(h) == Cardinality(DOMAIN stored[h].members) = 1

AddPlusOne ==
    LET h == HouseOf("add") IN
    /\ Served("add")
    /\ \/ /\ ~closed /\ MayAdd(h) /\ guests < MaxGuests
          /\ guests' = guests + 1
          /\ stored' = With(h, guests')
          /\ Respond("add", [NoResponse EXCEPT !.code = "ok", !.guest = guests'])
       \/ /\ UNCHANGED <<stored, guests>>
          /\ \/ closed /\ Respond("add", Refused("rsvp_closed"))
             \/ ~closed /\ ~MayAdd(h) /\ Respond("add", Refused("plus_one_not_allowed"))
             \* The bound on ids is met as an insert that fails is.
             \/ ~closed /\ MayAdd(h) /\ guests = MaxGuests /\ Respond("add", Refused("internal"))

RemoveCompanion ==
    LET h == HouseOf("remove")
        id == calls["remove"].guest
    IN
    /\ Served("remove")
    /\ UNCHANGED guests
    /\ \/ /\ ~closed /\ id \in DOMAIN stored[h].members
          /\ stored' = Without(h, id)
          /\ Respond("remove", [NoResponse EXCEPT !.code = "ok"])
       \/ /\ UNCHANGED stored
          /\ \/ closed /\ Respond("remove", Refused("rsvp_closed"))
             \/ ~closed /\ id \notin DOMAIN stored[h].members /\ Respond("remove", Refused("not_found"))

-----------------------------------------------------------------------------
(* The answers arrive.                                                     *)

Arrives(kind, code) == calls[kind].stage = "served" /\ calls[kind].response.code = code
Fails(kind) == calls[kind].stage = "served" /\ calls[kind].response.code \notin {"ok", "unauthenticated"}

\* setQueryData, and the render that follows.
Cached(answer) == cache' = answer /\ form' = Rendered(answer)
Done(kind)     == calls' = [calls EXCEPT ![kind] = Idle]

Fetched ==
    /\ Arrives("fetch", "ok")
    /\ Cached(calls["fetch"].response.answer)
    /\ Done("fetch")
    /\ UNCHANGED <<server, me, disturbed>>

\* watchForSessionExpiry: a 401 from a query ends the visit.
SessionExpired == Arrives("fetch", "unauthenticated") /\ VisitEnds("fetch")

FetchFails == Fails("fetch") /\ Done("fetch") /\ UNCHANGED <<server, me, cache, form, disturbed>>

\* The response is the cached answer from now on; the save is not over before
\* `me` has been asked for again.
Saved ==
    /\ Arrives("save", "ok")
    /\ Cached(calls["save"].response.answer)
    /\ calls' = [calls EXCEPT !["save"] = [Idle EXCEPT !.stage = "settling", !.ours = calls["save"].ours]]
    /\ UNCHANGED <<server, me, disturbed>>

\* `me` is there, or could not be had, and the form that sent the save turns to
\* the summary; or `me` is nobody any more.
Settled ==
    /\ calls["save"].stage = "settling"
    /\ \/ /\ form' = IF calls["save"].ours THEN [form EXCEPT !.summary = TRUE] ELSE form
          /\ Done("save")
          /\ UNCHANGED <<server, me, cache, disturbed>>
       \/ me # 0 /\ ~sessions[Len(sessions)].live /\ VisitEnds("save")

SaveFails ==
    LET response == calls["save"].response IN
    /\ Fails("save") \/ Arrives("save", "unauthenticated")
    /\ form' = IF calls["save"].ours THEN Told(form, response.code, response.guest) ELSE form
    /\ Done("save")
    /\ UNCHANGED <<server, me, cache, disturbed>>

\* The cached answer is patched with the new member.
Added ==
    /\ Arrives("add", "ok")
    /\ IF cache = NoAnswer THEN UNCHANGED <<cache, form>>
       ELSE Cached([cache EXCEPT !.canAdd = FALSE, !.members = Append(@,
              [id |-> calls["add"].response.guest, attending |-> "nil",
               child |-> FALSE, aged |-> FALSE])])
    /\ Done("add")
    /\ UNCHANGED <<server, me, disturbed>>

AddFails ==
    /\ Fails("add") \/ Arrives("add", "unauthenticated")
    /\ form' = IF calls["add"].ours /\ calls["add"].response.code = "rsvp_closed"
               THEN [form EXCEPT !.closedWhileOpen = TRUE] ELSE form
    /\ Done("add")
    /\ UNCHANGED <<server, me, cache, disturbed>>

\* The answer is fetched again, if anything on screen uses it.
Removed ==
    /\ Arrives("remove", "ok")
    /\ calls' = [calls EXCEPT !["remove"] = Idle,
                    !["fetch"] = IF me # 0 THEN Sent("fetch", NoRequest, 0) ELSE @]
    /\ UNCHANGED <<server, me, cache, form, disturbed>>

RemoveFails ==
    /\ Fails("remove") \/ Arrives("remove", "unauthenticated")
    /\ Done("remove")
    /\ UNCHANGED <<server, me, cache, form, disturbed>>

Deliver(kind) ==
    \/ kind = "fetch"  /\ (Fetched \/ SessionExpired \/ FetchFails)
    \/ kind = "save"   /\ (Saved \/ Settled \/ SaveFails)
    \/ kind = "add"    /\ (Added \/ AddFails)
    \/ kind = "remove" /\ (Removed \/ RemoveFails)

\* The request or its answer is lost, and the browser told so (NetworkError).
Lose(kind) ==
    /\ calls[kind].stage \in {"sent", "served"}
    /\ disturbed < MaxDisturbances /\ disturbed' = disturbed + 1
    /\ calls' = [calls EXCEPT ![kind] = Answered(kind, Refused("network"))]
    /\ UNCHANGED <<server, me, cache, form>>

-----------------------------------------------------------------------------
(* Elsewhere: another device of a household, the admin (who also saves and *)
(* removes after the deadline), the calendar.                              *)

Elsewhere ==
    /\ disturbed < MaxDisturbances /\ disturbed' = disturbed + 1
    /\ UNCHANGED <<me, cache, form, calls>>

ElsewhereSave(h, scope, ages, half) ==
    /\ Elsewhere
    /\ ages \subseteq stored[h].children
    /\ stored' = [stored EXCEPT
          ![h] = Normalized(@, [id \in DOMAIN stored[h].members |-> scope], ages, half)]
    /\ UNCHANGED <<guests, closed, sessions>>

\* The admin makes a member a child or an adult, with an age or without; a patch
\* that changes nothing is refused.
ElsewherePatch(h, id, child, aged) ==
    /\ Elsewhere
    /\ id \in DOMAIN stored[h].members /\ (aged => child)
    /\ stored' = [stored EXCEPT ![h].children = Marked(@, id, child),
                                ![h].ages = Marked(@, id, aged)]
    /\ stored' # stored
    /\ UNCHANGED <<guests, closed, sessions>>

ElsewhereAdd(h) ==
    /\ Elsewhere
    /\ ~closed /\ MayAdd(h) /\ guests < MaxGuests
    /\ guests' = guests + 1
    /\ stored' = With(h, guests')
    /\ UNCHANGED <<closed, sessions>>

ElsewhereRemove(h, id) ==
    /\ Elsewhere
    /\ id \in DOMAIN stored[h].members \ Households
    /\ stored' = Without(h, id)
    /\ UNCHANGED <<guests, closed, sessions>>

DeadlinePasses == Elsewhere /\ ~closed /\ closed' = TRUE /\ UNCHANGED <<stored, guests, sessions>>

\* The code is reissued.
Revoke ==
    /\ Elsewhere
    /\ \E i \in DOMAIN sessions : sessions[i].live
    /\ sessions' = [i \in DOMAIN sessions |-> [sessions[i] EXCEPT !.live = FALSE]]
    /\ UNCHANGED <<stored, guests, closed>>

-----------------------------------------------------------------------------
Serve(kind) ==
    \/ Unauthenticated(kind)
    \/ kind = "fetch"  /\ Show
    \/ kind = "save"   /\ Save
    \/ kind = "add"    /\ AddPlusOne
    \/ kind = "remove" /\ RemoveCompanion

Guest ==
    \/ LogOut \/ Forgotten \/ Refresh \/ Visit \/ Leave \/ Submit \/ Reload \/ ChangeAnswer \/ AddMember
    \/ \E h \in Households : LogIn(h)
    \/ \E id \in 1 .. MaxGuests :
          \/ RemoveMember(id)
          \/ \E scope \in Scopes : updateMember(id, scope)
          \/ \E given \in BOOLEAN : EnterAge(id, given)
    \/ \E scope \in Scopes : setHouseholdScope(scope)
    \/ \E direction \in Directions \cup {"none"} : ChooseDirection(direction)

Others ==
    \/ DeadlinePasses \/ Revoke
    \/ \E h \in Households :
          \/ ElsewhereAdd(h)
          \/ \E id \in 1 .. MaxGuests : ElsewhereRemove(h, id)
          \/ \E scope \in Scopes, ages \in SUBSET (1 .. MaxGuests), half \in Half :
                ElsewhereSave(h, scope, ages, half)
          \/ \E id \in 1 .. MaxGuests, child, aged \in BOOLEAN : ElsewherePatch(h, id, child, aged)

Next ==
    \/ Guest \/ Others
    \/ \E kind \in Kinds : Serve(kind) \/ Deliver(kind) \/ Lose(kind)

Spec == Init /\ [][Next]_vars

\* Calls are answered and their answers delivered, or the browser gives them up.
FairSpec == Spec /\ \A kind \in Kinds : WF_vars(Serve(kind) \/ Deliver(kind))

(***************************************************************************)
(* Properties.                                                             *)
(***************************************************************************)
Answers(members) == \A member \in Range(members) : member.id \in 1 .. MaxGuests
                        /\ member.attending \in MemberAnswer

\* The types; an age is a child's, and a form has a card for exactly the members
\* of the cached answer.
TypeOK ==
    /\ \A h \in Households :
          /\ DOMAIN stored[h].members \subseteq 1 .. guests /\ h \in DOMAIN stored[h].members
          /\ \A id \in DOMAIN stored[h].members : stored[h].members[id] \in MemberAnswer
          /\ stored[h].half \in Half
          /\ stored[h].ages \subseteq stored[h].children
          /\ stored[h].children \subseteq DOMAIN stored[h].members
    /\ guests <= MaxGuests /\ Len(sessions) <= MaxSessions
    /\ me \in Households \cup {0} /\ cache.household \in Households \cup {0}
    /\ Answers(cache.members) /\ (form.mounted => form.seeded = Ids(cache))
    /\ form.mounted => /\ me # 0 /\ DOMAIN form.draft.members = Range(Ids(cache))
                       /\ form.draft.ages \subseteq Range(Ids(cache))
    /\ \A kind \in Kinds :
          /\ calls[kind].stage \in {"none", "sent", "served", "settling"}
          /\ Answers(calls[kind].request.members) /\ Answers(calls[kind].response.answer.members)
    /\ disturbed \in 0 .. MaxDisturbances

\* A step of the guest's that fills the form in.
Typing ==
    \/ \E id \in 1 .. MaxGuests, scope \in Scopes : updateMember(id, scope)
    \/ \E id \in 1 .. MaxGuests, given \in BOOLEAN : EnterAge(id, given)
    \/ \E scope \in Scopes : setHouseholdScope(scope)
    \/ \E direction \in Directions \cup {"none"} : ChooseDirection(direction)

\* Whatever arrives while a form is filled in, a late answer, a reload, a
\* companion or a failure: what was typed for a member both answers have, scope
\* and age, and for the household, stays as it is (reseedDraft).
TypedSurvives ==
    [][form.mounted /\ form'.mounted /\ ~Typing =>
          /\ form'.draft.half = form.draft.half
          /\ \A id \in Range(Ids(cache)) \cap Range(Ids(cache')) :
                /\ form'.draft.members[id] = form.draft.members[id]
                /\ id \in form'.draft.ages <=> id \in form.draft.ages]_vars

\* Where nobody says no, nobody is declined: the default of toRequest never
\* stands in for an answer, whichever members appear while a form is filled in
\* (missingAnswers guards every save).
NobodyIsDeclined ==
    "no" \notin Scopes =>
        /\ \A member \in Range(calls["save"].request.members) : member.attending # "no"
        /\ \A h \in Households : \A id \in DOMAIN stored[h].members :
              stored[h].members[id] # "no"

\* The refused age is emptied.
Corrects == form.at # 0 /\ EnterAge(form.at, FALSE)

\* The guest answers for whoever is missing, empties the age that is refused and
\* does not type ages for ever, presses again, reloads when asked to, and does
\* not press reload for ever before its answer is there.
Tries ==
    /\ SF_vars(Submit) /\ SF_vars(Reload) /\ SF_vars(Fetched)
    /\ WF_vars(\E id \in missingAnswers(form.draft, cache), scope \in Scopes : updateMember(id, scope))
    /\ SF_vars(Corrects)
    /\ <>[][\A id \in 1 .. MaxGuests : ~EnterAge(id, TRUE)]_vars

\* The draft has an age that the form does not show: of an adult, or of a child
\* who stays away.
HidesAnAge ==
    \E id \in form.draft.ages :
        \/ \A member \in Range(cache.members) : member.id = id => ~member.child
        \/ form.draft.members[id] = "no"

\* The form waits for the guest, whose session is not over and who sees every
\* age that would be sent.
InVain ==
    /\ form.mounted /\ ~form.summary /\ ~isReadOnly /\ sessions[Len(sessions)].live
    /\ ~HidesAnAge

\* A guest who keeps trying, and sees what is sent, gets the answer stored or is
\* told that it is too late, however the calls overtook each other and whatever
\* was refused (submit, SaveFailure, reseedDraft).  A form that hides an age is
\* excepted, for there the code has a dead end: once the admin has made a child
\* an adult and a fetch has told the form so, every press is refused until the
\* form is left.
TryingHelps == Tries => (InVain ~> ~InVain)
=============================================================================
