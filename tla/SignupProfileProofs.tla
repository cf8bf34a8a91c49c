------------------------ MODULE SignupProfileProofs ------------------------
(***************************************************************************)
(* Proofs about SignupProfile, for any number of tabs and calls and for    *)
(* any dates of birth and days, whatever the order of the days.            *)
(*                                                                         *)
(* That the API refuses what the form let pass only across a birthday      *)
(* rests on dates (the age is the number of birthdays, and what the form   *)
(* accepts at an age the API accepts at that age) and on the form: what is *)
(* sent was checked as it is, whichever way the steps were gone through.   *)
(***************************************************************************)
EXTENDS SignupProfile, FiniteSetTheorems, SequenceTheorems, TLAPS

-----------------------------------------------------------------------------
(* Dates                                                                   *)

Triples == Int \X Int \X Int

\* calculateAge of schema.ts and age of the validator are one function.
LEMMA OneAge == ASSUME NEW b, NEW now PROVE CalculateAge(b, now) = Age(b, now)
  BY DEF CalculateAge, Age

LEMMA AgeIsInt == ASSUME NEW b \in Triples, NEW now \in Triples PROVE Age(b, now) \in Int
  BY DEF Triples, Age

\* How many years there are.
LEMMA Years == ASSUME NEW x \in Int, NEW y \in Int, x <= y
  PROVE  Cardinality(x + 1 .. y) = y - x
  <1>1. Cardinality(x + 1 .. y) = IF x + 1 > y THEN 0 ELSE y - (x + 1) + 1
    BY x + 1 \in Int, FS_Interval
  <1> QED  BY <1>1

\* From the year after that of birth on, the age is the number of birthdays; until
\* then there was none.
LEMMA BirthdaysAre == ASSUME NEW b \in Triples, NEW now \in Triples
  PROVE  Birthdays(b, now) = IF b[1] < now[1] THEN Age(b, now) ELSE 0
  <1> DEFINE had == {y \in b[1] + 1 .. now[1] : NotAfter(<<y, b[2], b[3]>>, now)}
  <1> DEFINE reached == now[2] > b[2] \/ (now[2] = b[2] /\ now[3] >= b[3])
  <1>1. b[1] \in Int /\ b[2] \in Int /\ b[3] \in Int /\ now[1] \in Int /\ now[2] \in Int /\ now[3] \in Int
    BY DEF Triples
  <1>2. CASE b[1] < now[1] /\ reached
    <2>1. had = b[1] + 1 .. now[1]
      BY <1>1, <1>2 DEF NotAfter
    <2>2. Cardinality(b[1] + 1 .. now[1]) = now[1] - b[1]
      BY <1>1, <1>2, Years
    <2> QED  BY <1>2, <2>1, <2>2 DEF Birthdays, Age
  <1>3. CASE b[1] < now[1] /\ ~reached
    <2>1. had = b[1] + 1 .. now[1] - 1
      BY <1>1, <1>3 DEF NotAfter
    <2>2. Cardinality(b[1] + 1 .. now[1] - 1) = now[1] - b[1] - 1
      <3>1. now[1] - 1 \in Int /\ b[1] <= now[1] - 1
        BY <1>1, <1>3
      <3>2. Cardinality(b[1] + 1 .. now[1] - 1) = (now[1] - 1) - b[1]
        BY <1>1, <3>1, Years
      <3> QED  BY <1>1, <3>2
    <2> QED  BY <1>3, <2>1, <2>2 DEF Birthdays, Age
  <1>4. CASE ~(b[1] < now[1])
    <2>1. had = {}
      BY <1>1, <1>4
    <2> QED  BY <1>4, <2>1, FS_EmptySet DEF Birthdays
  <1> QED  BY <1>2, <1>3, <1>4

\* What the form accepts on one day the API accepts on every day of a year with four
\* digits on which the user has had as many birthdays.
LEMMA FormMeansServer ==
  ASSUME NEW g, NEW b \in Triples, NEW d \in Triples, NEW e \in Triples
  PROVE  d[1] <= 9999 /\ FormAccepts(g, b, d) /\ Birthdays(b, d) = Birthdays(b, e)
           => ValidateBirthdate(g, b, e)
  <1> HAVE d[1] <= 9999 /\ FormAccepts(g, b, d) /\ Birthdays(b, d) = Birthdays(b, e)
  <1>1. /\ b[1] \in Int /\ d[1] \in Int /\ e[1] \in Int
        /\ Age(b, d) \in Int /\ Age(b, e) \in Int
    BY AgeIsInt DEF Triples
  <1>2. /\ Age(b, d) \in 18..100
        /\ g = "female" => Age(b, d) >= 30
        /\ g = "male" => Age(b, d) <= 35
        /\ IsRealDate(b)
    BY OneAge DEF FormAccepts
  <1>3. b[1] < d[1]
    <2>1. Age(b, d) <= d[1] - b[1]
      BY <1>1 DEF Age, Triples
    <2> QED  BY <1>1, <1>2, <2>1
  <1>4. Age(b, e) = Age(b, d)
    <2>1. Birthdays(b, d) = Age(b, d) /\ Age(b, d) # 0
      BY <1>1, <1>2, <1>3, BirthdaysAre
    <2>2. Birthdays(b, e) = IF b[1] < e[1] THEN Age(b, e) ELSE 0
      BY BirthdaysAre
    <2>3. Birthdays(b, e) # 0 /\ Birthdays(b, e) = Age(b, d)
      BY <2>1
    <2>4. b[1] < e[1]
      BY <2>2, <2>3
    <2> QED  BY <2>2, <2>3, <2>4
  <1>5. b[1] \in FourDigits
    <2> DEFINE year == b[1]
    <2>1. 100 <= b[1]
      BY <1>2 DEF IsRealDate
    <2>2. year \in Int /\ 0 <= year /\ year <= 9999
      BY <1>1, <1>3, <2>1
    <2> HIDE DEF year
    <2>3. year \in FourDigits
      BY <2>2 DEF FourDigits
    <2> QED  BY <2>3 DEF year
  <1>6. b[2] \in 1..12 /\ b[3] \in 1..DaysIn(b[1], b[2])
    BY <1>2 DEF IsRealDate
  <1>7. /\ Age(b, e) \in 18..100
        /\ g = "female" => Age(b, e) >= 30
        /\ g = "male" => Age(b, e) <= 35
    BY <1>2, <1>4
  <1> QED  BY <1>5, <1>6, <1>7 DEF ValidateBirthdate

\* Every day is a date, of a year with four digits.
LEMMA DaysAreDates == ASSUME NEW k \in 1..Len(Days)
  PROVE  Days[k] \in Triples /\ Days[k][1] <= 9999
  <1>1. Days[k] \in FourDigits \X Int \X Int
    BY DaysAssumption, ElementOfSeq
  <1>2. PICK y \in FourDigits, m \in Int, d \in Int : Days[k] = <<y, m, d>>
    BY <1>1
  <1>3. y \in Int /\ y <= 9999
    BY DEF FourDigits
  <1>4. Days[k][1] = y
    BY <1>2
  <1> QED  BY <1>2, <1>3, <1>4 DEF Triples

LEMMA BirthsAreDates == Births \subseteq Triples
  BY EntriesAssumption DEF Births, Triples

-----------------------------------------------------------------------------
(* The invariant                                                           *)

Idle == [state |-> "none"]
Tab == [step : 1..3, gender : Genders \union {"none"}, birth : Births \union {NoBirth},
        checked : 0..Len(Days), call : Calls \union {NoCall}, left : BOOLEAN]
Call == [state : {"queued", "validate", "find", "insert", "read", "answered"},
         result : Results, checked : 0..Len(Days), refused : 0..Len(Days), values : Values]

Types ==
    /\ entries \in Entries
    /\ tab \in [Tabs -> Tab]
    /\ call \in [Calls -> Call \union {Idle}]
    /\ profile \in Values \union {NoProfile}
    /\ has \in BOOLEAN
    /\ clientDay \in 1..Len(Days) /\ serverDay \in 1..Len(Days)

\* A tab waits for a call of its own.
Waits(t) == tab[t].call # NoCall =>
    call[tab[t].call].state # "none" /\ call[tab[t].call].values.by = t

\* What is entered after a step of the form was let pass by it.
FormDone(w) ==
    /\ w.step \in 2..3 => w.gender \in Genders
    /\ w.step = 3 => /\ w.checked \in 1..Len(Days) /\ w.birth \in Births
                     /\ FormAccepts(w.gender, w.birth, Days[w.checked])

FormLetPass(k) ==
    k.checked \in 1..Len(Days) /\ FormAccepts(k.values.gender, k.values.birth, Days[k.checked])

\* What is sent is what the form let pass, and what is refused still is.
Checked(k) ==
    /\ k.state \in {"queued", "validate"} => FormLetPass(k)
    /\ k.state = "answered" /\ k.result = "400" =>
         /\ FormLetPass(k) /\ k.refused \in 1..Len(Days)
         /\ ~ValidateBirthdate(k.values.gender, k.values.birth, Days[k.refused])

\* Who created the profile still finds it.
Created(k) ==
    /\ k.state = "read" \/ (k.state = "answered" /\ k.result = "201") => profile = k.values
    /\ k.state = "answered" /\ k.result = "409" => profile # NoProfile

Told ==
    /\ \A t \in Tabs : tab[t].left => has /\ profile # NoProfile /\ profile.by = t
    /\ has => profile # NoProfile

IInv ==
    /\ Types
    /\ \A t \in Tabs : Waits(t) /\ FormDone(tab[t])
    /\ \A c \in Calls : Checked(call[c]) /\ Created(call[c])
    /\ Told

\* A call is what Call says unless there is none.
LEMMA CallStates == ASSUME NEW k \in Call \union {Idle}
  PROVE  k.state # "none" => k \in Call
  BY DEF Idle

LEMMA ValuesOfCall == ASSUME NEW k \in Call
  PROVE  k.values \in Values /\ k.values.gender \in Genders /\ k.values.birth \in Births /\ k.values.by \in Tabs
  BY DEF Call, Values

LEMMA StepNames == ASSUME NEW t \in Tabs, tab \in [Tabs -> Tab]
  PROVE  /\ tab[t].step \in 1..3
         /\ At(t, "gender") <=> ~tab[t].left /\ tab[t].step = 1
         /\ At(t, "birthday") <=> ~tab[t].left /\ tab[t].step = 2
         /\ At(t, "confirm") <=> ~tab[t].left /\ tab[t].step = 3
  <1>1. tab[t].step \in 1..3
    BY DEF Tab
  <1>2. Steps[1] = "gender" /\ Steps[2] = "birthday" /\ Steps[3] = "confirm"
    BY DEF Steps
  <1> QED  BY <1>1, <1>2 DEF At

LEMMA InitIInv == Init => IInv
  <1> HAVE Init
  <1>1. Fresh \in Tab
    <2>1. Len(Days) \in Nat
      BY DaysAssumption, LenProperties
    <2> QED  BY <2>1 DEF Fresh, Tab
  <1>2. 1 \in 1..Len(Days)
    <2>1. Len(Days) \in Nat /\ Len(Days) # 0
      BY DaysAssumption, LenProperties
    <2> QED  BY <2>1
  <1>3. Types
    BY <1>1, <1>2 DEF Init, Types, Idle
  <1>4. \A t \in Tabs : Waits(t) /\ FormDone(tab[t])
    BY DEF Init, Waits, FormDone, Fresh
  <1>5. \A c \in Calls : Checked(call[c]) /\ Created(call[c])
    BY DEF Init, Checked, Created
  <1>6. Told
    BY DEF Init, Told, Fresh
  <1> QED  BY <1>3, <1>4, <1>5, <1>6 DEF IInv

\* The invariant says what the properties say.
LEMMA TypesAreTypeOK == IInv => TypeOK
  <1> HAVE IInv
  <1>1. tab \in [Tabs -> [step : 1..Len(Steps), gender : Genders \union {"none"},
                  birth : Births \union {NoBirth}, checked : 0..Len(Days),
                  call : Calls \union {NoCall}, left : BOOLEAN]]
    BY Len(Steps) = 3 DEF IInv, Types, Tab, Steps
  <1>2. \A c \in Calls : call[c].state # "none" => call[c] \in Call
    BY CallStates DEF IInv, Types
  <1> QED  BY <1>1, <1>2 DEF IInv, Types, TypeOK, Waits, Call

LEMMA RefusedAcross == IInv => RefusedOnlyAcrossABirthday
  <1> SUFFICES ASSUME IInv, NEW c \in Calls, call[c].state = "answered", call[c].result = "400",
                      Birthdays(call[c].values.birth, Days[call[c].checked])
                        = Birthdays(call[c].values.birth, Days[call[c].refused])
               PROVE  FALSE
    BY DEF RefusedOnlyAcrossABirthday
  <1>1. call[c] \in Call
    BY CallStates DEF IInv, Types
  <1> DEFINE g == call[c].values.gender
             b == call[c].values.birth
             d == Days[call[c].checked]
             e == Days[call[c].refused]
  <1>2. b \in Triples
    BY <1>1, ValuesOfCall, BirthsAreDates
  <1>3. FormLetPass(call[c]) /\ call[c].refused \in 1..Len(Days) /\ ~ValidateBirthdate(g, b, e)
    BY DEF IInv, Checked
  <1>4. d \in Triples /\ d[1] <= 9999 /\ FormAccepts(g, b, d) /\ e \in Triples
    BY <1>3, DaysAreDates DEF FormLetPass
  <1>5. Birthdays(b, d) = Birthdays(b, e)
    OBVIOUS
  <1> HIDE DEF g, b, d, e
  <1> QED  BY <1>2, <1>3, <1>4, <1>5, FormMeansServer

LEMMA OneProfileFollows == IInv => OneProfileAsAnswered
  BY DEF IInv, Created, Told, OneProfileAsAnswered

-----------------------------------------------------------------------------
(* Steps of one tab                                                        *)

\* A step that changes one tab, which neither leaves nor waits for another call, keeps
\* the invariant if its form still is what was let pass.
LEMMA TabMoves ==
  ASSUME IInv, NEW t \in Tabs, NEW w \in Tab, tab' = [tab EXCEPT ![t] = w],
         UNCHANGED <<entries, call, profile, has, clientDay, serverDay>>,
         w.left = tab[t].left, w.call \in {tab[t].call, NoCall}, FormDone(w)
  PROVE  IInv'
  <1>1. Types'
    BY DEF IInv, Types
  <1>2. \A u \in Tabs : tab'[u] = IF u = t THEN w ELSE tab[u]
    BY DEF IInv, Types
  <1>3. \A u \in Tabs : FormDone(tab'[u])
    BY <1>2 DEF IInv
  <1>4. \A u \in Tabs : Waits(u)'
    BY <1>2 DEF IInv, Waits
  <1>5. \A c \in Calls : (Checked(call[c]) /\ Created(call[c]))'
    BY DEF IInv, Checked, Created, FormLetPass
  <1>6. Told'
    BY <1>2 DEF IInv, Told
  <1>7. \A u \in Tabs : FormDone(tab[u])'
    BY <1>3 DEF FormDone
  <1> QED  BY <1>1, <1>4, <1>5, <1>6, <1>7 DEF IInv

LEMMA ChooseGenderKeeps ==
  ASSUME IInv, NEW t \in Tabs, NEW gender \in Genders, ChooseGender(t, gender) PROVE IInv'
  <1> DEFINE w == [tab[t] EXCEPT !.gender = gender]
  <1>1. tab \in [Tabs -> Tab] /\ tab[t] \in Tab
    BY DEF IInv, Types
  <1>2. w \in Tab
    BY <1>1 DEF Tab
  <1>3. tab' = [tab EXCEPT ![t] = w]
    BY <1>1 DEF ChooseGender
  <1>4. w.left = tab[t].left /\ w.call = tab[t].call /\ w.step = 1
    BY <1>1, StepNames DEF ChooseGender, Tab
  <1>5. FormDone(w)
    BY <1>4 DEF FormDone
  <1> HIDE DEF w
  <1> QED  BY <1>2, <1>3, <1>4, <1>5, TabMoves DEF ChooseGender

LEMMA EnterBirthdayKeeps ==
  ASSUME IInv, NEW t \in Tabs, NEW b \in entries, EnterBirthday(t, b) PROVE IInv'
  <1> DEFINE w == [tab[t] EXCEPT !.birth = b]
  <1>1. tab \in [Tabs -> Tab] /\ tab[t] \in Tab /\ b \in Births /\ FormDone(tab[t])
    BY DEF IInv, Types, Births
  <1>2. w \in Tab
    BY <1>1 DEF Tab
  <1>3. tab' = [tab EXCEPT ![t] = w]
    BY <1>1 DEF EnterBirthday
  <1>4. w.left = tab[t].left /\ w.call = tab[t].call /\ w.step = 2 /\ tab[t].step = 2 /\ w.gender = tab[t].gender
    BY <1>1, StepNames DEF EnterBirthday, Tab
  <1>5. FormDone(w)
    BY <1>1, <1>4 DEF FormDone
  <1> HIDE DEF w
  <1> QED  BY <1>2, <1>3, <1>4, <1>5, TabMoves DEF EnterBirthday

\* The button of the first step asks for a gender, that of the second for a birthday
\* that the form accepts today.
LEMMA OnNextKeeps ==
  ASSUME IInv, NEW t \in Tabs, OnNext(t) PROVE IInv'
  <1> DEFINE k == IF At(t, "birthday") THEN clientDay ELSE tab[t].checked
  <1> DEFINE w == [tab[t] EXCEPT !.step = @ + 1, !.checked = k]
  <1>1. /\ tab \in [Tabs -> Tab] /\ tab[t] \in Tab /\ FormDone(tab[t])
        /\ clientDay \in 1..Len(Days) /\ clientDay \in 0..Len(Days)
    BY DaysAssumption, LenProperties DEF IInv, Types
  <1>2. tab[t].step \in 1..2 /\ ~tab[t].left /\ CanProceed(t)
    BY <1>1, StepNames, Len(Steps) = 3 DEF OnNext, Steps
  <1>3. k \in 0..Len(Days) /\ tab[t].step + 1 \in 1..3
    BY <1>1, <1>2 DEF Tab
  <1>4. tab' = [tab EXCEPT ![t] = w]
    BY <1>1 DEF OnNext
  <1> HIDE DEF k
  <1>5. w \in Tab
    BY <1>1, <1>3 DEF Tab
  <1>6. /\ w.left = tab[t].left /\ w.call = tab[t].call /\ w.step = tab[t].step + 1
        /\ w.gender = tab[t].gender /\ w.birth = tab[t].birth /\ w.checked = k
    BY <1>1 DEF Tab
  <1> HIDE DEF w
  <1>7. CASE tab[t].step = 1
    <2>1. tab[t].gender \in Genders
      BY <1>1, <1>2, <1>7, StepNames DEF CanProceed, Tab
    <2>2. FormDone(w)
      BY <1>6, <1>7, <2>1 DEF FormDone
    <2> QED  BY <1>4, <1>5, <1>6, <2>2, TabMoves DEF OnNext
  <1>8. CASE tab[t].step = 2
    <2>1. At(t, "birthday") /\ k = clientDay
      BY <1>1, <1>2, <1>8, StepNames DEF k
    <2>2. /\ tab[t].gender \in Genders /\ tab[t].birth \in Births
          /\ FormAccepts(tab[t].gender, tab[t].birth, Days[clientDay])
      BY <1>1, <1>2, <1>8, <2>1 DEF FormDone, CanProceed, Tab
    <2>3. FormDone(w)
      BY <1>1, <1>6, <1>8, <2>1, <2>2 DEF FormDone
    <2> QED  BY <1>4, <1>5, <1>6, <2>3, TabMoves DEF OnNext
  <1> QED  BY <1>2, <1>7, <1>8

LEMMA OnBackKeeps ==
  ASSUME IInv, NEW t \in Tabs, OnBack(t) PROVE IInv'
  <1> DEFINE k == IF At(t, "confirm") THEN 0 ELSE tab[t].checked
  <1> DEFINE w == [tab[t] EXCEPT !.step = @ - 1, !.checked = k]
  <1>1. /\ tab \in [Tabs -> Tab] /\ tab[t] \in Tab /\ FormDone(tab[t])
        /\ 0 \in 0..Len(Days)
    BY DaysAssumption, LenProperties DEF IInv, Types
  <1>2. tab[t].step \in 2..3
    BY <1>1, StepNames DEF OnBack
  <1>3. k \in 0..Len(Days) /\ tab[t].step - 1 \in 1..3
    BY <1>1, <1>2 DEF Tab
  <1>4. tab' = [tab EXCEPT ![t] = w]
    BY <1>1 DEF OnBack
  <1> HIDE DEF k
  <1>5. w \in Tab
    BY <1>1, <1>3 DEF Tab
  <1>6. /\ w.left = tab[t].left /\ w.call = tab[t].call /\ w.step = tab[t].step - 1
        /\ w.gender = tab[t].gender
    BY <1>1 DEF Tab
  <1> HIDE DEF w
  <1>7. FormDone(w)
    BY <1>1, <1>2, <1>6 DEF FormDone
  <1> QED  BY <1>4, <1>5, <1>6, <1>7, TabMoves DEF OnBack

LEMMA LoseAnswerKeeps ==
  ASSUME IInv, NEW t \in Tabs, LoseAnswer(t) PROVE IInv'
  <1> DEFINE w == [tab[t] EXCEPT !.call = NoCall]
  <1>1. tab \in [Tabs -> Tab] /\ tab[t] \in Tab /\ FormDone(tab[t])
    BY DEF IInv, Types
  <1>2. w \in Tab
    BY <1>1 DEF Tab
  <1>3. tab' = [tab EXCEPT ![t] = w]
    BY <1>1 DEF LoseAnswer
  <1>4. w.left = tab[t].left /\ w.call = NoCall /\ FormDone(w)
    BY <1>1 DEF Tab, FormDone
  <1> HIDE DEF w
  <1> QED  BY <1>2, <1>3, <1>4, TabMoves DEF LoseAnswer

-----------------------------------------------------------------------------
(* Steps of one call                                                       *)

\* A step of one call that leaves its values, or begins a call where there is none,
\* keeps the invariant if what it says of the call is true.
LEMMA CallMoves ==
  ASSUME IInv, NEW c \in Calls, NEW k \in Call, call' = [call EXCEPT ![c] = k],
         UNCHANGED <<entries, tab, profile, has, clientDay, serverDay>>,
         call[c].state = "none" \/ k.values = call[c].values, Checked(k), Created(k)
  PROVE  IInv'
  <1>1. Types'
    BY DEF IInv, Types
  <1>2. \A d \in Calls : call'[d] = IF d = c THEN k ELSE call[d]
    BY DEF IInv, Types
  <1>3. k.state # "none"
    BY DEF Call
  <1>4. \A t \in Tabs : Waits(t)'
    <2> SUFFICES ASSUME NEW t \in Tabs PROVE Waits(t)'
      OBVIOUS
    <2>1. Waits(t) /\ tab[t].call \in Calls \union {NoCall}
      BY DEF IInv, Types, Tab
    <2> QED  BY <1>2, <1>3, <2>1 DEF Waits
  <1>5. \A d \in Calls : Checked(call'[d]) /\ Created(call'[d])
    BY <1>2 DEF IInv
  <1>6. \A d \in Calls : (Checked(call[d]) /\ Created(call[d]))'
    BY <1>5 DEF Checked, Created, FormLetPass
  <1>7. Told' /\ \A t \in Tabs : FormDone(tab[t])'
    BY DEF IInv, Told, FormDone
  <1> QED  BY <1>1, <1>4, <1>6, <1>7 DEF IInv

LEMMA HandleCreateProfileKeeps ==
  ASSUME IInv, NEW t \in Tabs, NEW c \in Calls, HandleCreateProfile(t, c) PROVE IInv'
  <1> DEFINE v == [gender |-> tab[t].gender, birth |-> tab[t].birth, by |-> t]
             k == [state |-> "queued", result |-> "none", checked |-> tab[t].checked,
                   refused |-> 0, values |-> v]
  <1>1. /\ tab \in [Tabs -> Tab] /\ tab[t] \in Tab /\ FormDone(tab[t]) /\ tab[t].step = 3
        /\ call \in [Calls -> Call \union {Idle}]
    BY StepNames DEF IInv, Types, HandleCreateProfile
  <1>2. /\ tab[t].gender \in Genders /\ tab[t].birth \in Births /\ tab[t].checked \in 1..Len(Days)
        /\ tab[t].checked \in 0..Len(Days)
        /\ FormAccepts(tab[t].gender, tab[t].birth, Days[tab[t].checked])
    BY <1>1 DEF FormDone, Tab
  <1>3. v \in Values /\ v.gender = tab[t].gender /\ v.birth = tab[t].birth
    BY <1>2 DEF Values
  <1>4. call' = [call EXCEPT ![c] = k] /\ call[c].state = "none"
        /\ UNCHANGED <<entries, tab, profile, has, clientDay, serverDay>>
    BY DEF HandleCreateProfile
  <1> HIDE DEF v
  <1>5. k \in Call
    <2>1. 0 \in 0..Len(Days)
      BY DaysAssumption, LenProperties
    <2> QED  BY <1>2, <1>3, <2>1 DEF Call, Results
  <1>6. Checked(k) /\ Created(k)
    BY <1>2, <1>3 DEF Checked, Created, FormLetPass
  <1> HIDE DEF k
  <1> QED  BY <1>4, <1>5, <1>6, CallMoves

\* Sending changes the tab as well: from now on it waits for the call.
LEMMA SendKeeps ==
  ASSUME IInv, NEW c \in Calls, Send(c) PROVE IInv'
  <1> DEFINE t == call[c].values.by
             k == [call[c] EXCEPT !.state = "validate"]
             w == [tab[t] EXCEPT !.call = c]
  <1>1. /\ tab \in [Tabs -> Tab] /\ call \in [Calls -> Call \union {Idle}]
        /\ call[c] \in Call /\ call[c].state = "queued" /\ Checked(call[c])
    BY CallStates DEF IInv, Types, Send
  <1>2. t \in Tabs
    BY <1>1, ValuesOfCall
  <1>3. tab' = [tab EXCEPT ![t] = w] /\ call' = [call EXCEPT ![c] = k]
        /\ UNCHANGED <<entries, profile, has, clientDay, serverDay>>
    BY <1>1, <1>2 DEF Send
  <1>4. k \in Call /\ k.state = "validate" /\ k.values = call[c].values /\ k.checked = call[c].checked
    BY <1>1 DEF Call
  <1>5. k.values.by = t
    BY <1>4
  <1> HIDE DEF t
  <1>6. /\ w \in Tab /\ w.call = c /\ w.left = tab[t].left /\ w.step = tab[t].step
        /\ w.gender = tab[t].gender /\ w.birth = tab[t].birth /\ w.checked = tab[t].checked
    BY <1>1, <1>2 DEF Tab
  <1> HIDE DEF k, w
  <1>7. /\ \A u \in Tabs : tab'[u] = IF u = t THEN w ELSE tab[u]
        /\ \A d \in Calls : call'[d] = IF d = c THEN k ELSE call[d]
    BY <1>1, <1>2, <1>3
  <1>8. Types'
    BY <1>1, <1>2, <1>3, <1>4, <1>6 DEF IInv, Types
  <1>9. \A u \in Tabs : Waits(u)'
    <2> SUFFICES ASSUME NEW u \in Tabs PROVE Waits(u)'
      OBVIOUS
    <2>1. Waits(u) /\ tab[u].call \in Calls \union {NoCall}
      BY DEF IInv, Types, Tab
    <2>2. CASE u = t
      BY <1>4, <1>5, <1>6, <1>7, <2>2 DEF Waits
    <2>3. CASE u # t
      BY <1>4, <1>7, <2>1, <2>3 DEF Waits
    <2> QED  BY <2>2, <2>3
  <1>10. \A u \in Tabs : FormDone(tab[u])'
    <2>1. FormDone(w)
      BY <1>2, <1>6 DEF IInv, FormDone
    <2>2. \A u \in Tabs : FormDone(tab'[u])
      BY <1>7, <2>1 DEF IInv
    <2> QED  BY <2>2 DEF FormDone
  <1>11. \A d \in Calls : (Checked(call[d]) /\ Created(call[d]))'
    <2>1. Checked(k) /\ Created(k)
      BY <1>1, <1>4 DEF Checked, Created, FormLetPass
    <2>2. \A d \in Calls : Checked(call'[d]) /\ Created(call'[d])
      BY <1>7, <2>1 DEF IInv
    <2> QED  BY <1>3, <2>2 DEF Checked, Created, FormLetPass
  <1>12. Told'
    BY <1>2, <1>3, <1>6, <1>7 DEF IInv, Told
  <1> QED  BY <1>8, <1>9, <1>10, <1>11, <1>12 DEF IInv

\* What the API refuses was let pass, and is refused by the date of its refusal.
LEMMA ValidateKeeps ==
  ASSUME IInv, NEW c \in Calls, Validate(c) PROVE IInv'
  <1>1. /\ call \in [Calls -> Call \union {Idle}] /\ call[c] \in Call
        /\ call[c].state = "validate" /\ Checked(call[c])
        /\ serverDay \in 1..Len(Days) /\ serverDay \in 0..Len(Days) /\ 0 \in 0..Len(Days)
    BY CallStates, DaysAssumption, LenProperties DEF IInv, Types, Validate
  <1>2. CASE ValidateBirthdate(call[c].values.gender, call[c].values.birth, Days[serverDay])
    <2> DEFINE k == [call[c] EXCEPT !.state = "find", !.checked = 0]
    <2>1. call' = [call EXCEPT ![c] = k]
      BY <1>1, <1>2 DEF Validate
    <2>2. k \in Call /\ k.values = call[c].values /\ k.state = "find"
      BY <1>1 DEF Call
    <2>3. Checked(k) /\ Created(k)
      BY <2>2 DEF Checked, Created
    <2> HIDE DEF k
    <2> QED  BY <2>1, <2>2, <2>3, CallMoves DEF Validate
  <1>3. CASE ~ValidateBirthdate(call[c].values.gender, call[c].values.birth, Days[serverDay])
    <2> DEFINE k == [call[c] EXCEPT !.state = "answered", !.result = "400", !.refused = serverDay]
    <2>1. call' = [call EXCEPT ![c] = k]
      BY <1>1, <1>3 DEF Validate
    <2>2. /\ k \in Call /\ k.values = call[c].values /\ k.state = "answered" /\ k.result = "400"
          /\ k.refused = serverDay /\ k.checked = call[c].checked
      BY <1>1 DEF Call, Results
    <2> HIDE DEF k
    <2>3. Checked(k) /\ Created(k)
      BY <1>1, <1>3, <2>2 DEF Checked, Created, FormLetPass
    <2> QED  BY <2>1, <2>2, <2>3, CallMoves DEF Validate
  <1> QED  BY <1>2, <1>3

\* What Goto changes.
LEMMA GotoIs ==
  ASSUME IInv, NEW c \in Calls, NEW state \in {"insert", "read", "answered"}, NEW result \in Results,
         call[c].state # "none", Goto(c, state, result)
  PROVE  \E k \in Call : /\ call' = [call EXCEPT ![c] = k]
                         /\ k.state = state /\ k.result = result /\ k.values = call[c].values
  <1> DEFINE k == [call[c] EXCEPT !.state = state, !.result = result]
  <1>1. call \in [Calls -> Call \union {Idle}] /\ call[c] \in Call
    BY CallStates DEF IInv, Types
  <1>2. k \in Call /\ k.state = state /\ k.result = result /\ k.values = call[c].values
    BY <1>1 DEF Call
  <1>3. call' = [call EXCEPT ![c] = k]
    BY <1>1 DEF Goto
  <1> HIDE DEF k
  <1> QED  BY <1>2, <1>3

LEMMA GetProfileByUserIDKeeps ==
  ASSUME IInv, NEW c \in Calls, GetProfileByUserID(c) PROVE IInv'
  <1>1. CASE profile = NoProfile
    <2>1. PICK k \in Call : /\ call' = [call EXCEPT ![c] = k]
                            /\ k.state = "insert" /\ k.result = "none" /\ k.values = call[c].values
      BY <1>1, GotoIs DEF GetProfileByUserID, Results
    <2>2. Checked(k) /\ Created(k)
      BY <2>1 DEF Checked, Created
    <2> QED  BY <2>1, <2>2, CallMoves DEF GetProfileByUserID
  <1>2. CASE profile # NoProfile
    <2>1. PICK k \in Call : /\ call' = [call EXCEPT ![c] = k]
                            /\ k.state = "answered" /\ k.result = "409" /\ k.values = call[c].values
      BY <1>2, GotoIs DEF GetProfileByUserID, Results
    <2>2. Checked(k) /\ Created(k)
      BY <1>2, <2>1 DEF Checked, Created
    <2> QED  BY <2>1, <2>2, CallMoves DEF GetProfileByUserID
  <1> QED  BY <1>1, <1>2

\* The insert creates the profile or finds another one, which stays: nobody who found
\* his own profile loses it.
LEMMA CreateProfileKeeps ==
  ASSUME IInv, NEW c \in Calls, CreateProfile(c) PROVE IInv'
  <1>1. CASE profile = NoProfile
    <2>1. PICK k \in Call : /\ call' = [call EXCEPT ![c] = k]
                            /\ k.state = "read" /\ k.result = "none" /\ k.values = call[c].values
      BY <1>1, GotoIs DEF CreateProfile, Results
    <2>2. /\ profile' = call[c].values /\ call[c] \in Call
          /\ UNCHANGED <<entries, tab, has, clientDay, serverDay>>
      BY <1>1, CallStates DEF CreateProfile, IInv, Types
    <2>3. profile' \in Values /\ profile' # NoProfile
      BY <2>2, ValuesOfCall DEF Values, Genders, NoProfile
    <2>4. \A d \in Calls : call'[d] = IF d = c THEN k ELSE call[d]
      BY <2>1 DEF IInv, Types
    <2>5. Types'
      BY <2>1, <2>2, <2>3 DEF IInv, Types
    <2>6. \A d \in Calls : d # c => ~(call[d].state = "read" \/ (call[d].state = "answered" /\ call[d].result = "201"))
      <3> SUFFICES ASSUME NEW d \in Calls, call[d].state = "read" \/ (call[d].state = "answered" /\ call[d].result = "201")
                   PROVE FALSE
        OBVIOUS
      <3>1. call[d] \in Call /\ profile = call[d].values
        BY CallStates DEF IInv, Types, Created
      <3> QED  BY <1>1, <3>1, ValuesOfCall DEF NoProfile, Genders
    <2>7. \A d \in Calls : (Checked(call[d]) /\ Created(call[d]))'
      <3> SUFFICES ASSUME NEW d \in Calls PROVE (Checked(call[d]) /\ Created(call[d]))'
        OBVIOUS
      <3>1. CASE d = c
        BY <2>1, <2>2, <2>4, <3>1 DEF Checked, Created
      <3>2. CASE d # c
        <4>1. call'[d] = call[d] /\ Checked(call[d]) /\ Created(call[d])
          BY <2>4, <3>2 DEF IInv
        <4>2. Checked(call[d])'
          BY <4>1 DEF Checked, FormLetPass
        <4>3. Created(call[d])'
          BY <2>3, <2>6, <3>2, <4>1 DEF Created
        <4> QED  BY <4>2, <4>3
      <3> QED  BY <3>1, <3>2
    <2>8. \A t \in Tabs : (Waits(t) /\ FormDone(tab[t]))'
      <3> SUFFICES ASSUME NEW t \in Tabs PROVE (Waits(t) /\ FormDone(tab[t]))'
        OBVIOUS
      <3>1. Waits(t) /\ FormDone(tab[t]) /\ tab[t].call \in Calls \union {NoCall}
        BY DEF IInv, Types, Tab
      <3>2. Waits(t)'
        BY <2>1, <2>2, <2>4, <3>1 DEF Waits
      <3> QED  BY <2>2, <3>1, <3>2 DEF FormDone
    <2>9. Told'
      BY <1>1, <2>2, <2>3 DEF IInv, Told
    <2> QED  BY <2>5, <2>7, <2>8, <2>9 DEF IInv
  <1>2. CASE profile # NoProfile
    <2>1. PICK k \in Call : /\ call' = [call EXCEPT ![c] = k]
                            /\ k.state = "answered" /\ k.result = "500" /\ k.values = call[c].values
      BY <1>2, GotoIs DEF CreateProfile, Results
    <2>2. Checked(k) /\ Created(k)
      BY <2>1 DEF Checked, Created
    <2> QED  BY <1>2, <2>1, <2>2, CallMoves DEF CreateProfile
  <1> QED  BY <1>1, <1>2

LEMMA GetMyProfileKeeps ==
  ASSUME IInv, NEW c \in Calls, GetMyProfile(c) PROVE IInv'
  <1>1. PICK k \in Call : /\ call' = [call EXCEPT ![c] = k]
                          /\ k.state = "answered" /\ k.result = "201" /\ k.values = call[c].values
    BY GotoIs DEF GetMyProfile, Results
  <1>2. Checked(k) /\ Created(k)
    BY <1>1 DEF Checked, Created, IInv, GetMyProfile
  <1> QED  BY <1>1, <1>2, CallMoves DEF GetMyProfile

LEMMA FailKeeps ==
  ASSUME IInv, NEW c \in Calls, Fail(c) PROVE IInv'
  <1>1. PICK k \in Call : /\ call' = [call EXCEPT ![c] = k]
                          /\ k.state = "answered" /\ k.result \in {"401", "500"} /\ k.values = call[c].values
    <2>1. CASE call[c].state = "validate"
      BY <2>1, GotoIs DEF Fail, Results
    <2>2. CASE call[c].state \in {"find", "insert", "read"}
      BY <2>2, GotoIs DEF Fail, Results
    <2> QED  BY <2>1, <2>2 DEF Fail
  <1>2. Checked(k) /\ Created(k)
    BY <1>1 DEF Checked, Created
  <1> QED  BY <1>1, <1>2, CallMoves DEF Fail

\* A tab leaves the form only with the profile it created: who waits for the call sent
\* its values, and these are the profile if the answer is 201.
LEMMA AnsweredKeeps ==
  ASSUME IInv, NEW c \in Calls, Answered(c) PROVE IInv'
  <1> DEFINE gone == [Fresh EXCEPT !.left = TRUE]
             mine(t) == [tab[t] EXCEPT !.call = NoCall]
             created == call[c].result = "201"
  <1>1. /\ tab \in [Tabs -> Tab] /\ call \in [Calls -> Call \union {Idle}]
        /\ call[c] \in Call /\ call[c].state = "answered" /\ c # NoCall
    BY CallStates, CallsAssumption DEF IInv, Types, Answered
  <1>2. /\ tab' = [t \in Tabs |-> IF tab[t].call = c THEN IF created THEN gone ELSE mine(t) ELSE tab[t]]
        /\ call' = [call EXCEPT ![c] = Idle]
        /\ has' = (has \/ (created /\ \E t \in Tabs : tab[t].call = c))
        /\ UNCHANGED <<entries, profile, clientDay, serverDay>>
    BY DEF Answered, Idle
  <1>3. created => profile = call[c].values /\ profile # NoProfile
    <2>1. created => profile = call[c].values
      BY <1>1 DEF IInv, Created
    <2> QED  BY <1>1, <2>1, ValuesOfCall DEF NoProfile, Genders
  <1>4. gone \in Tab /\ gone.left /\ gone.call = NoCall /\ gone.step = 1
    <2>1. Fresh \in Tab /\ Fresh.call = NoCall /\ Fresh.step = 1
      BY DaysAssumption, LenProperties DEF Fresh, Tab
    <2> QED  BY <2>1 DEF Tab
  <1>5. \A t \in Tabs : /\ mine(t) \in Tab /\ mine(t).call = NoCall /\ mine(t).left = tab[t].left
                        /\ mine(t).step = tab[t].step /\ mine(t).gender = tab[t].gender
                        /\ mine(t).birth = tab[t].birth /\ mine(t).checked = tab[t].checked
    BY <1>1 DEF Tab
  <1>6. Idle.state = "none"
    BY DEF Idle
  <1> HIDE DEF gone, mine, created
  <1>7. \A t \in Tabs : tab'[t] = IF tab[t].call = c THEN IF created THEN gone ELSE mine(t) ELSE tab[t]
    BY <1>2
  <1>8. \A d \in Calls : call'[d] = IF d = c THEN Idle ELSE call[d]
    BY <1>1, <1>2
  <1>9. Types'
    <2>1. \A t \in Tabs : tab'[t] \in Tab
      BY <1>1, <1>4, <1>5, <1>7
    <2>2. tab' \in [Tabs -> Tab]
      BY <1>2, <2>1
    <2>3. call' \in [Calls -> Call \union {Idle}]
      BY <1>1, <1>2
    <2>4. has' \in BOOLEAN
      BY <1>2
    <2> QED  BY <1>2, <2>2, <2>3, <2>4 DEF IInv, Types
  <1>10. \A t \in Tabs : Waits(t)'
    <2> SUFFICES ASSUME NEW t \in Tabs PROVE Waits(t)'
      OBVIOUS
    <2>1. Waits(t) /\ tab[t].call \in Calls \union {NoCall}
      BY DEF IInv, Types, Tab
    <2>2. CASE tab[t].call = c
      BY <1>4, <1>5, <1>7, <2>2 DEF Waits
    <2>3. CASE tab[t].call # c
      BY <1>7, <1>8, <2>1, <2>3 DEF Waits
    <2> QED  BY <2>2, <2>3
  <1>11. \A t \in Tabs : FormDone(tab[t])'
    <2>1. FormDone(gone)
      BY <1>4 DEF FormDone
    <2>2. \A t \in Tabs : FormDone(mine(t))
      BY <1>5 DEF IInv, FormDone
    <2>3. \A t \in Tabs : FormDone(tab'[t])
      BY <1>7, <2>1, <2>2 DEF IInv
    <2> QED  BY <2>3 DEF FormDone
  <1>12. \A d \in Calls : (Checked(call[d]) /\ Created(call[d]))'
    <2>1. Checked(Idle) /\ Created(Idle)
      BY <1>6 DEF Checked, Created
    <2>2. \A d \in Calls : Checked(call'[d]) /\ Created(call'[d])
      BY <1>8, <2>1 DEF IInv
    <2> QED  BY <1>2, <2>2 DEF Checked, Created, FormLetPass
  <1>13. Told'
    <2>1. \A t \in Tabs : tab'[t].left => has' /\ profile # NoProfile /\ profile.by = t
      <3> SUFFICES ASSUME NEW t \in Tabs, tab'[t].left
                   PROVE  has' /\ profile # NoProfile /\ profile.by = t
        OBVIOUS
      <3>1. CASE tab[t].call = c /\ created
        <4>1. call[c].values.by = t
          BY <1>1, <3>1 DEF IInv, Waits
        <4> QED  BY <1>2, <1>3, <3>1, <4>1
      <3>2. CASE ~(tab[t].call = c /\ created)
        <4>1. tab[t].left
          BY <1>5, <1>7, <3>2
        <4> QED  BY <1>2, <4>1 DEF IInv, Told
      <3> QED  BY <3>1, <3>2
    <2>2. has' => profile # NoProfile
      BY <1>2, <1>3 DEF IInv, Told
    <2> QED  BY <1>2, <2>1, <2>2 DEF Told
  <1> QED  BY <1>9, <1>10, <1>11, <1>12, <1>13 DEF IInv

\* A reload drops calls that nobody waits for yet: those of this tab that are not sent.
LEMMA ReloadKeeps ==
  ASSUME IInv, NEW t \in Tabs, Reload(t) PROVE IInv'
  <1> DEFINE dropped(c) == call[c].state = "queued" /\ call[c].values.by = t
  <1>1. /\ tab \in [Tabs -> Tab] /\ call \in [Calls -> Call \union {Idle}]
    BY DEF IInv, Types
  <1>2. /\ tab' = [tab EXCEPT ![t] = Fresh]
        /\ call' = [c \in Calls |-> IF dropped(c) THEN Idle ELSE call[c]]
        /\ UNCHANGED <<entries, profile, has, clientDay, serverDay>>
    BY DEF Reload, Idle
  <1>3. Fresh \in Tab /\ ~Fresh.left /\ Fresh.call = NoCall /\ Fresh.step = 1
    BY DaysAssumption, LenProperties DEF Fresh, Tab
  <1>4. Idle.state = "none"
    BY DEF Idle
  <1>5. \A u \in Tabs : tab'[u] = IF u = t THEN Fresh ELSE tab[u]
    BY <1>1, <1>2
  <1>6. \A c \in Calls : call'[c] = IF dropped(c) THEN Idle ELSE call[c]
    BY <1>2
  <1>7. Types'
    <2>1. tab' \in [Tabs -> Tab]
      BY <1>1, <1>2, <1>3
    <2>2. call' \in [Calls -> Call \union {Idle}]
      <3>1. \A c \in Calls : call'[c] \in Call \union {Idle}
        BY <1>1, <1>6
      <3> QED  BY <1>2, <3>1
    <2> QED  BY <1>2, <2>1, <2>2 DEF IInv, Types
  <1>8. \A u \in Tabs : Waits(u)'
    <2> SUFFICES ASSUME NEW u \in Tabs, tab'[u].call # NoCall PROVE Waits(u)'
      BY DEF Waits
    <2>1. u # t /\ tab'[u] = tab[u]
      BY <1>3, <1>5
    <2>2. /\ call[tab[u].call].state # "none" /\ call[tab[u].call].values.by = u
          /\ tab[u].call \in Calls
      BY <1>1, <2>1 DEF IInv, Waits, Tab
    <2>3. ~dropped(tab[u].call)
      BY <2>1, <2>2
    <2> HIDE DEF dropped
    <2> QED  BY <1>6, <2>1, <2>2, <2>3 DEF Waits
  <1>9. \A u \in Tabs : FormDone(tab[u])'
    <2>1. FormDone(Fresh)
      BY <1>3 DEF FormDone
    <2>2. \A u \in Tabs : FormDone(tab'[u])
      BY <1>5, <2>1 DEF IInv
    <2> QED  BY <2>2 DEF FormDone
  <1>10. \A c \in Calls : (Checked(call[c]) /\ Created(call[c]))'
    <2>1. Checked(Idle) /\ Created(Idle)
      BY <1>4 DEF Checked, Created
    <2>2. \A c \in Calls : Checked(call'[c]) /\ Created(call'[c])
      BY <1>6, <2>1 DEF IInv
    <2> QED  BY <1>2, <2>2 DEF Checked, Created, FormLetPass
  <1>11. Told'
    BY <1>2, <1>3, <1>5 DEF IInv, Told
  <1> QED  BY <1>7, <1>8, <1>9, <1>10, <1>11 DEF IInv

-----------------------------------------------------------------------------
(* Days go by                                                              *)

LEMMA MidnightKeeps ==
  ASSUME IInv, clientDay' \in 1..Len(Days), serverDay' \in 1..Len(Days),
         UNCHANGED <<entries, tab, call, profile, has>>
  PROVE  IInv'
  BY DEF IInv, Types, Waits, FormDone, Checked, Created, FormLetPass, Told

LEMMA ClientMidnightKeeps == ASSUME IInv, ClientMidnight PROVE IInv'
  <1>1. Len(Days) \in Nat /\ clientDay \in 1..Len(Days) /\ serverDay \in 1..Len(Days)
    BY DaysAssumption, LenProperties DEF IInv, Types
  <1>2. clientDay' \in 1..Len(Days) /\ serverDay' \in 1..Len(Days)
    BY <1>1 DEF ClientMidnight
  <1> QED  BY <1>2, MidnightKeeps DEF ClientMidnight

LEMMA ServerMidnightKeeps == ASSUME IInv, ServerMidnight PROVE IInv'
  <1>1. Len(Days) \in Nat /\ clientDay \in 1..Len(Days) /\ serverDay \in 1..Len(Days)
    BY DaysAssumption, LenProperties DEF IInv, Types
  <1>2. clientDay' \in 1..Len(Days) /\ serverDay' \in 1..Len(Days)
    BY <1>1 DEF ServerMidnight
  <1> QED  BY <1>2, MidnightKeeps DEF ServerMidnight

-----------------------------------------------------------------------------
(* Theorems                                                                *)

LEMMA NextKeeps == IInv /\ [Next]_vars => IInv'
  <1> SUFFICES ASSUME IInv, [Next]_vars PROVE IInv'
    OBVIOUS
  <1>1. CASE \E t \in Tabs :
               \/ \E gender \in Genders : ChooseGender(t, gender)
               \/ \E b \in entries : EnterBirthday(t, b)
               \/ OnNext(t) \/ OnBack(t) \/ LoseAnswer(t) \/ Reload(t)
               \/ \E c \in Calls : HandleCreateProfile(t, c)
    BY <1>1, ChooseGenderKeeps, EnterBirthdayKeeps, OnNextKeeps, OnBackKeeps,
       LoseAnswerKeeps, ReloadKeeps, HandleCreateProfileKeeps
  <1>2. CASE \E c \in Calls :
               \/ Send(c) \/ Validate(c) \/ GetProfileByUserID(c) \/ CreateProfile(c)
               \/ GetMyProfile(c) \/ Fail(c) \/ Answered(c)
    BY <1>2, SendKeeps, ValidateKeeps, GetProfileByUserIDKeeps, CreateProfileKeeps,
       GetMyProfileKeeps, FailKeeps, AnsweredKeeps
  <1>3. CASE ClientMidnight \/ ServerMidnight
    BY <1>3, ClientMidnightKeeps, ServerMidnightKeeps
  <1>4. CASE UNCHANGED vars
    BY <1>4, MidnightKeeps DEF vars, IInv, Types
  <1> QED  BY <1>1, <1>2, <1>3, <1>4 DEF Next

\* The inductive invariant: types, what every step of the form has let pass, what was
\* sent, and who created the profile.
THEOREM InvHolds == Spec => []IInv
  <1>1. Init => IInv
    BY InitIInv
  <1>2. IInv /\ [Next]_vars => IInv'
    BY NextKeeps
  <1> QED  BY <1>1, <1>2, PTL DEF Spec

\* The state of the form, the calls and the days is of its types, and a tab waits for a
\* call of its own (page.tsx, myprofile_usecase.go).
THEOREM SignupTypes == Spec => []TypeOK
  <1>1. IInv => TypeOK
    BY TypesAreTypeOK
  <1> QED  BY <1>1, InvHolds, PTL

\* For every date of birth and all dates, back and forth through the form: what the form
\* (schema.ts) let pass the API (myprofile_validator.go) refuses only across a birthday.
THEOREM OneRule == Spec => []RefusedOnlyAcrossABirthday
  <1>1. IInv => RefusedOnlyAcrossABirthday
    BY RefusedAcross
  <1> QED  BY <1>1, InvHolds, PTL

\* At most one of any number of tabs is told that it created the profile, and the profile
\* is that tab's (createMyProfile, the unique index on profiles.user_id).
THEOREM OneProfile == Spec => []OneProfileAsAnswered
  <1>1. IInv => OneProfileAsAnswered
    BY OneProfileFollows
  <1> QED  BY <1>1, InvHolds, PTL
=============================================================================
