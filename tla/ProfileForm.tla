---------------------------- MODULE ProfileForm ----------------------------
(***************************************************************************)
(* The form of /myprofile/edit in several tabs of one user: the page that  *)
(* reads the profile (app/(app)/myprofile/edit/page.tsx), the form that    *)
(* edits a copy of it (components/myprofile/profile-edit-area.tsx), the    *)
(* action that sends the whole form (actions/myprofile.ts) and the         *)
(* statements that store it (myprofile_usecase.go).                        *)
(*                                                                         *)
(* The copy is made when the page is shown, and neither another tab's save *)
(* nor the answer of its own changes it.  A save goes on in the API when   *)
(* its answer is lost.  Photos, which the same Save writes, are in         *)
(* MyProfile.                                                              *)
(***************************************************************************)
EXTENDS Naturals, FiniteSets

CONSTANTS EditTabs,   \* tabs or devices showing the edit page
          Attributes, \* what nickname, bio and the other fields together may say
          Tags,       \* tags that can be chosen
          CategoryOf, \* the category of each
          Limit,      \* TAGS_PER_CATEGORY_LIMIT: 3
          MaxSaves    \* bound on the saves ever sent

Blank == "no nickname"

ASSUME TagsAssumption == IsFiniteSet(Tags)
ASSUME AttributesAssumption == Blank \notin Attributes
ASSUME SavesAssumption == Limit \in Nat \ {0} /\ MaxSaves \in Nat \ {0}

Saves == 1..MaxSaves

VARIABLES attributes, \* columns of the row of profiles
          links,      \* rows of profile_tags
          tab,        \* each tab: its page, and the form there
          request,    \* each save, and where the API is with it
          mixed       \* history: a save was sent while another one ran

formVars == <<attributes, links, tab, request, mixed>>
stored == <<attributes, links>>

\* ProfileFormData: how often tag_ids has each tag.  (Its order is that of the links, and
\* nothing depends on it.)
Form(a, chosen) == [attributes |-> a, tags |-> chosen]
NoForm == Form(Blank, [g \in Tags |-> 0])

\* What was done to the page in a tab, and the save it waits for.  sync is history: no
\* save was sent since the form was read, or its own was stored, and nothing was edited.
NewPage(step) == [step |-> step, form |-> NoForm,
                  saving |-> FALSE, action |-> 0, sync |-> FALSE]

NoRequest == [step |-> "unsent", form |-> NoForm, seen |-> {}, alone |-> TRUE]
Running == {"read", "save", "replace", "commit"}
InAPI == {s \in Saves : request[s].step \in Running}

\* A profile has no tags when it is created.
FormInit ==
    /\ attributes \in Attributes /\ links = {}
    /\ tab = [t \in EditTabs |-> NewPage("left")]
    /\ request = [s \in Saves |-> NoRequest]
    /\ mixed = FALSE

\* profile_tags has no key that forbids a second link to a tag.
TagIDs(rows) == [g \in Tags |-> Cardinality({l \in rows : l.tag = g})]

-----------------------------------------------------------------------------
(* The page: it is rendered with a profile, read in two statements         *)

OnlyTab(t, new) == tab' = [tab EXCEPT ![t] = new] /\ UNCHANGED <<stored, request, mixed>>

\* A new page in this tab; the action under way is not cancelled.
FreshPage(t, step) == [NewPage(step) EXCEPT !.action = tab[t].action]

\* What may come of GET /myprofile and of GET /tags, which are sent together,
GetMyprofile == {200, 401, 404, 500}
GetTags == {200, 401, 500}

\* and what is shown then.
EditPage(profileRes, tagsRes) ==
    CASE 401 \in {profileRes, tagsRes} -> "login"
      [] {profileRes, tagsRes} = {200} -> "shown"
      [] OTHER -> "error"

\* The page is asked for: the row is read.
OpenPage(t) ==
    /\ tab[t].step # "opening"
    /\ OnlyTab(t, [FreshPage(t, "opening") EXCEPT
         !.form = Form(attributes, NoForm.tags), !.sync = InAPI = {}])

\* Then the tags: useState copies the profile.
PageLoads(t) ==
    /\ tab[t].step = "opening"
    /\ OnlyTab(t, [tab[t] EXCEPT !.step = EditPage(200, 200), !.form.tags = TagIDs(links)])

PageFails(t) ==
    /\ tab[t].step = "opening"
    /\ \E profileRes \in GetMyprofile, tagsRes \in GetTags :
         /\ EditPage(profileRes, tagsRes) # "shown"
         /\ OnlyTab(t, FreshPage(t, EditPage(profileRes, tagsRes)))

\* Another page is shown.
Leave(t) == tab[t].step \in {"shown", "login", "error"} /\ OnlyTab(t, FreshPage(t, "left"))

-----------------------------------------------------------------------------
(* Editing                                                                 *)

Edit(t, form) ==
    /\ tab[t].step = "shown"
    /\ OnlyTab(t, [tab[t] EXCEPT !.form = form, !.sync = FALSE])

\* The nickname and the bio are typed, the others selected.
ProfileFieldsArea(t) ==
    \E a \in Attributes \union {Blank} : Edit(t, [tab[t].form EXCEPT !.attributes = a])

\* CategoryChips shows how many are selected.
SelectedCount(form, category) ==
    Cardinality({g \in Tags : CategoryOf[g] = category /\ form.tags[g] > 0})

\* Mutant: one too many.
ToggleTagBeyond(form, g) ==
    CASE form.tags[g] > 0 -> 0
      [] SelectedCount(form, CategoryOf[g]) > Limit -> 0
      [] OTHER -> 1

\* How often tag_ids has a tag when it has been toggled: deselected however often it was
\* there, and not selected beyond the limit.
ToggleTag(form, g) ==
    CASE form.tags[g] > 0 -> 0
      [] SelectedCount(form, CategoryOf[g]) >= Limit -> 0
      [] OTHER -> 1

TagArea(t) ==
    \E g \in Tags : Edit(t, [tab[t].form EXCEPT !.tags[g] = ToggleTag(tab[t].form, g)])

-----------------------------------------------------------------------------
(* Saving: the action, and PUT /myprofile statement by statement           *)

\* The button is disabled; Next.js does not send two actions of a tab at once.
CanSave(t) == tab[t].step = "shown" /\ ~tab[t].saving /\ tab[t].action = 0

\* Mutant: the request is not validated.
AlwaysValid(form) == TRUE

\* Nickname and prefecture are required.
ValidUpdate(form) == form.attributes # Blank

\* 401 and 400 come before anything is read.
Validated(form) == {"refused"} \union IF ValidUpdate(form) THEN {"read"} ELSE {}

\* What a new save does to one that was sent before.
Overtaken(r) == [request[r] EXCEPT !.alone = @ /\ request[r].step \in {"unsent", "ended"}]

HandleSave(t, s) ==
    /\ CanSave(t)
    /\ request[s].step = "unsent" /\ \A r \in 1..(s - 1) : request[r].step # "unsent"
    /\ \E step \in Validated(tab[t].form) :
         request' = [r \in Saves |->
           IF r # s THEN Overtaken(r)
           ELSE [step |-> step, form |-> tab[t].form, seen |-> {}, alone |-> InAPI = {}]]
    /\ mixed' = (mixed \/ InAPI # {})
    /\ tab' = [o \in EditTabs |->
         IF o # t THEN [tab[o] EXCEPT !.sync = FALSE]
         ELSE [tab[t] EXCEPT !.saving = TRUE, !.action = s, !.sync = FALSE]]
    /\ UNCHANGED stored

At(s, step) == request[s].step = step

Ended == [NoRequest EXCEPT !.step = "ended"]

\* The API answers, if a tab waits.
Answers(s, step) ==
    request' = [request EXCEPT ![s] =
        IF \E t \in EditTabs : tab[t].action = s THEN [@ EXCEPT !.step = step, !.seen = {}]
        ELSE Ended]

\* The tags are preloaded.
GetProfileByUserID(s) ==
    /\ At(s, "read")
    /\ request' = [request EXCEPT ![s].step = "save", ![s].seen = links]
    /\ UNCHANGED <<stored, tab, mixed>>

\* Save writes the columns, and inserts links that were read and are gone.  It waits for
\* a transaction that is deleting them.
UpdateProfile(s) ==
    /\ At(s, "save")
    /\ \A r \in Saves : At(r, "commit") => request[r].seen \intersect request[s].seen = {}
    /\ attributes' = request[s].form.attributes
    /\ links' = links \union request[s].seen
    /\ request' = [request EXCEPT ![s].step = "replace", ![s].seen = {}]
    /\ UNCHANGED <<tab, mixed>>

\* ReplaceProfileTags deletes the links its statement sees,
DeleteProfileTags(s) ==
    /\ At(s, "replace")
    /\ request' = [request EXCEPT ![s].step = "commit", ![s].seen = links]
    /\ UNCHANGED <<stored, tab, mixed>>

\* Mutant: without tags to insert nothing is done.
ReplacedIfAny(s) ==
    IF request[s].form.tags = NoForm.tags THEN links
    ELSE (links \ request[s].seen)
         \union UNION {[save : {s}, tag : {g}, copy : 1..request[s].form.tags[g]] : g \in Tags}

\* and inserts a link for every entry of tag_ids.
Replaced(s) ==
    (links \ request[s].seen)
    \union UNION {[save : {s}, tag : {g}, copy : 1..request[s].form.tags[g]] : g \in Tags}

\* The profile is read once more for the answer; that may fail too.
CommitProfileTags(s) ==
    /\ At(s, "commit")
    /\ links' = Replaced(s)
    /\ Answers(s, "stored") \/ Answers(s, "refused")
    /\ UNCHANGED <<attributes, tab, mixed>>

\* A statement fails, or the process ends: 500 or no answer.
UpdateFails(s) ==
    /\ request[s].step \in Running
    /\ Answers(s, "refused")
    /\ UNCHANGED <<stored, tab, mixed>>

-----------------------------------------------------------------------------
(* The answer                                                              *)

\* finally.
Ends(t, sync) ==
    /\ tab' = [tab EXCEPT ![t].action = 0, ![t].saving = FALSE, ![t].sync = sync]
    /\ UNCHANGED <<stored, mixed>>

Answered(t, step) == tab[t].action # 0 /\ At(tab[t].action, step)
Forget(s) == request' = [request EXCEPT ![s] = Ended]

\* The answer's profile is not used.  (A form that was mounted since does not wait.)
UpdateMyProfileSucceeds(t) ==
    /\ Answered(t, "stored")
    /\ LET sent == request[tab[t].action]
       IN  Ends(t, tab[t].sync \/ (tab[t].saving /\ sent.alone /\ tab[t].form = sent.form))
    /\ Forget(tab[t].action)

\* An error is shown.
UpdateMyProfileErrors(t) ==
    Answered(t, "refused") /\ Ends(t, tab[t].sync) /\ Forget(tab[t].action)

\* No answer comes, and the action throws; the API may be at any step.
UpdateMyProfileThrows(t) ==
    /\ tab[t].action # 0 /\ Ends(t, tab[t].sync)
    /\ IF At(tab[t].action, "stored") \/ At(tab[t].action, "refused")
       THEN Forget(tab[t].action) ELSE UNCHANGED request

-----------------------------------------------------------------------------

Page(t) == OpenPage(t) \/ PageLoads(t) \/ PageFails(t) \/ Leave(t)

UpdateMyProfile(s) ==
    \/ GetProfileByUserID(s) \/ UpdateProfile(s)
    \/ DeleteProfileTags(s) \/ CommitProfileTags(s) \/ UpdateFails(s)

Answer(t) == UpdateMyProfileSucceeds(t) \/ UpdateMyProfileErrors(t) \/ UpdateMyProfileThrows(t)

FormNext ==
    \/ \E t \in EditTabs :
         \/ Page(t) \/ ProfileFieldsArea(t) \/ TagArea(t)
         \/ \E s \in Saves : HandleSave(t, s)
         \/ Answer(t)
    \/ \E s \in Saves : UpdateMyProfile(s)

FormSpec == FormInit /\ [][FormNext]_formVars

-----------------------------------------------------------------------------
(* Properties                                                              *)

\* The types of the state: no profile is left without its nickname, and the button is not
\* disabled when no answer is awaited.
FormTypeOK ==
    /\ attributes \in Attributes
    /\ links \subseteq [save : Saves, tag : Tags, copy : Nat]
    /\ \A t \in EditTabs :
         /\ tab[t].step \in {"left", "opening", "shown", "login", "error"}
         /\ tab[t].form.attributes \in Attributes \union {Blank}
         /\ tab[t].action \in Saves \union {0}
         /\ tab[t].saving => tab[t].action # 0
    /\ \A s \in Saves : request[s].step \in Running \union {"unsent", "stored", "refused", "ended"}

\* The form on the page is the profile: when no save was under way as it was read and none
\* was sent since, and also when its own save, which ran alone, has succeeded.  So saving
\* an untouched form changes nothing, and a success was one of everything in the form.
FormShowsTheProfile == \A t \in EditTabs :
    tab[t].step = "shown" /\ tab[t].sync => tab[t].form = Form(attributes, TagIDs(links))

\* However forms are edited, go stale, and are saved one after the other, with any of the
\* statements failing, no tag is linked twice and no category has more than the limit.
\* Only saves that overlap can bring that about.
TagsAreAsChosen == ~mixed =>
    LET chosen == Form(attributes, TagIDs(links))
    IN  /\ \A g \in Tags : chosen.tags[g] <= 1
        /\ \A g \in Tags : SelectedCount(chosen, CategoryOf[g]) <= Limit
=============================================================================
