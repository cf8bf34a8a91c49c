--------------------------- MODULE SignupProfile ---------------------------
(***************************************************************************)
(* The first profile: the steps of /signup/profile in several tabs of one  *)
(* user (app/signup/profile/page.tsx, schema.ts), the server action        *)
(* createMyProfile and POST /myprofile statement by statement              *)
(* (myprofile_validator.go, myprofile_usecase.go).                         *)
(*                                                                         *)
(* The form is checked by the browser's date when the birthday is entered, *)
(* the request by the server's date when it arrives.  The browser is in    *)
(* Japan and its day begins before the server's.                           *)
(***************************************************************************)
EXTENDS Integers, Sequences, FiniteSets

CONSTANTS Tabs,    \* tabs with the form
          Calls,   \* POST /myprofile under way at one time
          Entries, \* bound: the sets of dates <<year, month, day>> that one user enters
          Days     \* the dates on which this happens, one after the other

ASSUME EntriesAssumption == Entries \subseteq SUBSET (Int \X Int \X Int)
\* Both sides write a year with four digits.
FourDigits == 0..9999
ASSUME DaysAssumption == Days # <<>> /\ Days \in Seq(FourDigits \X Int \X Int)

VARIABLES entries,    \* the dates this user enters
          tab,        \* each tab's step, form, day of the last check, and call it waits for
          call,       \* submissions: waiting for an earlier one of their tab, or at the API
          profile,    \* the user's row in profiles: what was submitted, or NoProfile
          has,        \* cookie has_profile
          clientDay,  \* index in Days of the browser's date
          serverDay   \* index in Days of the API's date

vars == <<entries, tab, call, profile, has, clientDay, serverDay>>

NoCall == "none"
NoProfile == [gender |-> "none"]
NoBirth == <<>>
ASSUME CallsAssumption == NoCall \notin Calls
Births == UNION Entries
Genders == {"male", "female"}

\* (Without intro, location and nickname, which let pass once something is entered.)
Steps == <<"gender", "birthday", "confirm">>
Results == {"none", "201", "400", "401", "409", "500"}

Fresh == [step |-> 1, gender |-> "none", birth |-> NoBirth, checked |-> 0,
          call |-> NoCall, left |-> FALSE]

Init ==
    /\ entries \in Entries
    /\ tab = [t \in Tabs |-> Fresh]
    /\ call = [c \in Calls |-> [state |-> "none"]]
    /\ profile = NoProfile
    /\ has = FALSE
    /\ clientDay = 1 /\ serverDay = 1

-----------------------------------------------------------------------------
(* Dates and ages                                                          *)

IsLeap(y) == y % 4 = 0 /\ (y % 100 # 0 \/ y % 400 = 0)

DaysIn(y, m) == IF m = 2 THEN IF IsLeap(y) THEN 29 ELSE 28
                ELSE IF m \in {4, 6, 9, 11} THEN 30 ELSE 31

\* JavaScript's Date takes the years below 100 for those after 1900.
IsRealDate(b) == b[1] >= 100 /\ b[2] \in 1..12 /\ b[3] \in 1..DaysIn(b[1], b[2])

\* Mutant: on the birthday itself the year is not counted yet.
AgeAfterBirthday(b, now) ==
    IF now[2] > b[2] \/ (now[2] = b[2] /\ now[3] > b[3])
    THEN now[1] - b[1] ELSE now[1] - b[1] - 1

CalculateAge(b, now) ==
    IF now[2] > b[2] \/ (now[2] = b[2] /\ now[3] >= b[3])
    THEN now[1] - b[1] ELSE now[1] - b[1] - 1

\* profileSchema's rules for the birthday.
FormAccepts(gender, b, now) ==
    /\ IsRealDate(b)
    /\ CalculateAge(b, now) \in 18..100
    /\ gender = "female" => CalculateAge(b, now) >= 30
    /\ gender = "male" => CalculateAge(b, now) <= 35

Age(b, now) ==
    IF now[2] > b[2] \/ (now[2] = b[2] /\ now[3] >= b[3])
    THEN now[1] - b[1] ELSE now[1] - b[1] - 1

\* ValidateMyProfileCreateRequest; what else it looks at the form has made sure of.
ValidateBirthdate(gender, b, now) ==
    /\ b[1] \in FourDigits /\ b[2] \in 1..12 /\ b[3] \in 1..DaysIn(b[1], b[2])
    /\ Age(b, now) \in 18..100
    /\ gender = "female" => Age(b, now) >= 30
    /\ gender = "male" => Age(b, now) <= 35

-----------------------------------------------------------------------------
(* The form                                                                *)

At(t, step) == ~tab[t].left /\ Steps[tab[t].step] = step

ChooseGender(t, gender) ==
    /\ At(t, "gender")
    /\ tab' = [tab EXCEPT ![t].gender = gender]
    /\ UNCHANGED <<entries, call, profile, has, clientDay, serverDay>>

EnterBirthday(t, b) ==
    /\ At(t, "birthday")
    /\ tab' = [tab EXCEPT ![t].birth = b]
    /\ UNCHANGED <<entries, call, profile, has, clientDay, serverDay>>

\* What the button of the step asks for.
CanProceed(t) ==
    /\ At(t, "gender") => tab[t].gender # "none"
    /\ At(t, "birthday") =>
         tab[t].birth # NoBirth /\ FormAccepts(tab[t].gender, tab[t].birth, Days[clientDay])

OnNext(t) ==
    /\ ~tab[t].left /\ tab[t].step < Len(Steps) /\ CanProceed(t)
    /\ tab' = [tab EXCEPT ![t].step = @ + 1,
                 ![t].checked = IF At(t, "birthday") THEN clientDay ELSE @]
    /\ UNCHANGED <<entries, call, profile, has, clientDay, serverDay>>

\* Also while the profile is being created.
OnBack(t) ==
    /\ ~tab[t].left /\ tab[t].step > 1
    /\ tab' = [tab EXCEPT ![t].step = @ - 1, ![t].checked = IF At(t, "confirm") THEN 0 ELSE @]
    /\ UNCHANGED <<entries, call, profile, has, clientDay, serverDay>>

\* handleCreateProfile takes the values as they are.  It may be pressed again at once:
\* isCreatingProfile is set inside the transition, and React shows that only at its end.
HandleCreateProfile(t, c) ==
    /\ At(t, "confirm")
    /\ call[c].state = "none"
    /\ call' = [call EXCEPT ![c] =
         [state |-> "queued", result |-> "none", checked |-> tab[t].checked, refused |-> 0,
          values |-> [gender |-> tab[t].gender, birth |-> tab[t].birth, by |-> t]]]
    /\ UNCHANGED <<entries, tab, profile, has, clientDay, serverDay>>

\* A tab's actions are sent one after the other.
Send(c) ==
    /\ call[c].state = "queued" /\ tab[call[c].values.by].call = NoCall
    /\ tab' = [tab EXCEPT ![call[c].values.by].call = c]
    /\ call' = [call EXCEPT ![c].state = "validate"]
    /\ UNCHANGED <<entries, profile, has, clientDay, serverDay>>

-----------------------------------------------------------------------------
(* POST /myprofile                                                         *)

Goto(c, state, result) == call' = [call EXCEPT ![c].state = state, ![c].result = result]

Validate(c) ==
    /\ call[c].state = "validate"
    /\ LET ok == ValidateBirthdate(call[c].values.gender, call[c].values.birth, Days[serverDay])
       IN  call' = IF ok THEN [call EXCEPT ![c].state = "find", ![c].checked = 0]
                   ELSE [call EXCEPT ![c].state = "answered", ![c].result = "400",
                           ![c].refused = serverDay]
    /\ UNCHANGED <<entries, tab, profile, has, clientDay, serverDay>>

GetProfileByUserID(c) ==
    /\ call[c].state = "find"
    /\ IF profile = NoProfile THEN Goto(c, "insert", "none") ELSE Goto(c, "answered", "409")
    /\ UNCHANGED <<entries, tab, profile, has, clientDay, serverDay>>

\* Mutant: no unique index on user_id.
CreateProfileAgain(c) ==
    /\ call[c].state = "insert"
    /\ profile' = call[c].values /\ Goto(c, "read", "none")
    /\ UNCHANGED <<entries, tab, has, clientDay, serverDay>>

\* The unique index on user_id answers the second insert with an error of its own.
CreateProfile(c) ==
    /\ call[c].state = "insert"
    /\ IF profile = NoProfile
       THEN profile' = call[c].values /\ Goto(c, "read", "none")
       ELSE UNCHANGED profile /\ Goto(c, "answered", "500")
    /\ UNCHANGED <<entries, tab, has, clientDay, serverDay>>

\* GetMyProfile, for the answer.
GetMyProfile(c) ==
    /\ call[c].state = "read"
    /\ Goto(c, "answered", "201")
    /\ UNCHANGED <<entries, tab, profile, has, clientDay, serverDay>>

\* The access token is no longer valid when the request arrives, or a statement fails.
Fail(c) ==
    /\ \/ call[c].state = "validate" /\ Goto(c, "answered", "401")
       \/ call[c].state \in {"find", "insert", "read"} /\ Goto(c, "answered", "500")
    /\ UNCHANGED <<entries, tab, profile, has, clientDay, serverDay>>

\* Mutant: the action does not end.
AnsweredStillCreating(c) ==
    /\ call[c].state = "answered"
    /\ call' = [call EXCEPT ![c] = [state |-> "none"]]
    /\ has' = (has \/ (call[c].result = "201" /\ \E t \in Tabs : tab[t].call = c))
    /\ UNCHANGED <<entries, tab, profile, clientDay, serverDay>>

\* createMyProfile sets the cookie, and the page leaves for /recs or shows the error,
\* if there is one that waits.
Answered(c) ==
    /\ call[c].state = "answered"
    /\ call' = [call EXCEPT ![c] = [state |-> "none"]]
    /\ has' = (has \/ (call[c].result = "201" /\ \E t \in Tabs : tab[t].call = c))
    /\ tab' = [t \in Tabs |-> IF tab[t].call = c
                THEN IF call[c].result = "201" THEN [Fresh EXCEPT !.left = TRUE]
                     ELSE [tab[t] EXCEPT !.call = NoCall]
                ELSE tab[t]]
    /\ UNCHANGED <<entries, profile, clientDay, serverDay>>

\* The answer is lost: the action throws, and the form stays as it is.  The API goes on.
LoseAnswer(t) ==
    /\ tab[t].call # NoCall
    /\ tab' = [tab EXCEPT ![t].call = NoCall]
    /\ UNCHANGED <<entries, call, profile, has, clientDay, serverDay>>

\* Nobody waits for what was sent, and what was not is gone.
Reload(t) ==
    /\ ~tab[t].left
    /\ tab' = [tab EXCEPT ![t] = Fresh]
    /\ call' = [c \in Calls |-> IF call[c].state = "queued" /\ call[c].values.by = t
                               THEN [state |-> "none"] ELSE call[c]]
    /\ UNCHANGED <<entries, profile, has, clientDay, serverDay>>

-----------------------------------------------------------------------------

ClientMidnight ==
    /\ clientDay = serverDay /\ clientDay < Len(Days)
    /\ clientDay' = clientDay + 1
    /\ UNCHANGED <<entries, tab, call, profile, has, serverDay>>

ServerMidnight ==
    /\ serverDay < clientDay
    /\ serverDay' = serverDay + 1
    /\ UNCHANGED <<entries, tab, call, profile, has, clientDay>>

Next ==
    \/ \E t \in Tabs :
         \/ \E gender \in Genders : ChooseGender(t, gender)
         \/ \E b \in entries : EnterBirthday(t, b)
         \/ OnNext(t) \/ OnBack(t) \/ LoseAnswer(t) \/ Reload(t)
         \/ \E c \in Calls : HandleCreateProfile(t, c)
    \/ \E c \in Calls :
         \/ Send(c) \/ Validate(c) \/ GetProfileByUserID(c) \/ CreateProfile(c) \/ GetMyProfile(c)
         \/ Fail(c) \/ Answered(c)
    \/ ClientMidnight \/ ServerMidnight

Spec == Init /\ [][Next]_vars

-----------------------------------------------------------------------------
(* Properties                                                              *)

Values == [gender : Genders, birth : Births, by : Tabs]

\* The types of the state; a tab waits for a call of its own.
TypeOK ==
    /\ entries \in Entries
    /\ tab \in [Tabs -> [step : 1..Len(Steps), gender : Genders \union {"none"},
                  birth : Births \union {NoBirth}, checked : 0..Len(Days), call : Calls \union {NoCall}, left : BOOLEAN]]
    /\ \A c \in Calls : call[c].state # "none" =>
         call[c] \in [state : {"queued", "validate", "find", "insert", "read", "answered"},
                      result : Results, checked : 0..Len(Days), refused : 0..Len(Days),
                      values : Values]
    /\ \A t \in Tabs : tab[t].call # NoCall =>
         call[tab[t].call].state # "none" /\ call[tab[t].call].values.by = t
    /\ profile \in Values \union {NoProfile} /\ has \in BOOLEAN
    /\ clientDay \in 1..Len(Days) /\ serverDay \in 1..Len(Days)

NotAfter(d, e) == \/ d[1] < e[1]
                  \/ d[1] = e[1] /\ d[2] < e[2]
                  \/ d[1] = e[1] /\ d[2] = e[2] /\ d[3] <= e[3]

\* The number of birthdays somebody has had.
Birthdays(b, now) == Cardinality({y \in b[1] + 1 .. now[1] : NotAfter(<<y, b[2], b[3]>>, now)})

\* schema.ts:3, myprofile_validator.go:17: the two halves apply one rule.  What the
\* form let pass the API refuses only if the user has had a birthday between the two
\* checks, by the two clocks, whichever way the form was gone through and changed.
RefusedOnlyAcrossABirthday == \A c \in Calls :
    call[c].state = "answered" /\ call[c].result = "400" =>
        LET b == call[c].values.birth
        IN  Birthdays(b, Days[call[c].checked]) # Birthdays(b, Days[call[c].refused])

\* However many tabs send the form: at most one of them is told that it created the
\* profile, and the profile is that tab's; whoever is told that there is one already
\* has one; and so does the browser whose cookie says so.
OneProfileAsAnswered ==
    /\ \A c \in Calls : call[c].state = "answered" /\ call[c].result = "201" =>
         profile = call[c].values
    /\ \A t, u \in Tabs : tab[t].left /\ tab[u].left => t = u
    /\ \A t \in Tabs : tab[t].left => has /\ profile # NoProfile /\ profile.by = t
    /\ \A c \in Calls : call[c].state = "answered" /\ call[c].result = "409" => profile # NoProfile
    /\ has => profile # NoProfile
=============================================================================
