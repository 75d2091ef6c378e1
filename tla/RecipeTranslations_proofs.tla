---------------------- MODULE RecipeTranslations_proofs ----------------------
(***************************************************************************)
(* Proofs about RecipeTranslations for every set of texts, rows and jobs.  *)
(* RecipeInv is inductive.  It says what a translation under way knows of  *)
(* the text while no save has overtaken it (Knows), that a stored one then *)
(* carries the hash of what it translates (Faithful), and where the        *)
(* translations of removed rows come from while a deletion is under way    *)
(* (Swept).  RequestInv adds what a save and a writer have been asked to   *)
(* do when they are about to do it (Justified).                            *)
(***************************************************************************)
EXTENDS RecipeProperties, TLAPS

\* What job t knows while nothing has overtaken it.
Knows(t) ==
    t.alone =>
       /\ t.pc = "load" => t.lang = recipe.lang
       /\ t.pc = "write" => \/ t.of = text[recipe.lang][t.field]
                            \/ text[recipe.lang][t.field] = NoText
       /\ t.pc \in {"direction", "check", "upsert"} => t.hash = t.of

Faithful(t) == t.status # "absent" /\ t.alone => t.hash = t.of

Swept ==
    /\ \A e \in Entities, l \in Languages : trans[e][l].status # "absent" =>
          \/ e \in Elements(fields) /\ (Purging => trans[e][l].purge # "none")
          \/ e \in dropped
          \/ trans[e][l].purge = "late"
    /\ \A e \in dropped : e \notin Elements(fields)
    /\ \A i, j \in Jobs : job[i].pc = "purged" /\ job[j].pc = "purged" => i = j

RecipeInv ==
    /\ RecipeTypes
    /\ recipe.status = "absent" => fields = <<>> /\ \A j \in Jobs : job[j].pc = "new"
    /\ \A j \in Jobs : Knows(job[j])
    /\ \A e \in Entities, l \in Languages : Faithful(trans[e][l])
    /\ Swept

LEMMA RecipeInvImplies == RecipeInv => ShownIsCurrent /\ NothingElseLeftBehind
  <1> SUFFICES ASSUME RecipeInv PROVE ShownIsCurrent /\ NothingElseLeftBehind
    OBVIOUS
  <1>1. Elements(fields) \subseteq Entities
    BY DEF RecipeInv, RecipeTypes, Elements
  <1>2. ShownIsCurrent
    BY <1>1 DEF RecipeInv, ShownIsCurrent, Marked, IsStale, Faithful
  <1>3. NothingElseLeftBehind
    BY DEF RecipeInv, Swept, NothingElseLeftBehind
  <1> QED  BY <1>2, <1>3

LEMMA ValuesTyped ==
    /\ NoTranslation \in Translation /\ NoTranslation.status = "absent"
    /\ Fresh \in Job /\ Fresh.pc = "new" /\ Fresh.alone
    /\ Ended \in Job /\ Ended.pc = "done"
    /\ \A l \in Languages : Other(l) \in Languages
  BY DEF NoTranslation, Translation, Languages, Fresh, Job, Entities, Ended, Other

\* The record updates of the module.
LEMMA StatusUpdate ==
    ASSUME NEW t \in Translation, NEW s \in {"absent", "machine", "reviewed", "stale"}
    PROVE  /\ [t EXCEPT !.status = s] \in Translation
           /\ [t EXCEPT !.status = s].status = s /\ [t EXCEPT !.status = s].of = t.of
           /\ [t EXCEPT !.status = s].hash = t.hash /\ [t EXCEPT !.status = s].alone = t.alone
           /\ [t EXCEPT !.status = s].purge = t.purge
  BY DEF Translation

LEMMA PurgeUpdate ==
    ASSUME NEW t \in Translation, NEW p \in {"none", "doomed", "late"}
    PROVE  /\ [t EXCEPT !.purge = p] \in Translation
           /\ [t EXCEPT !.purge = p].purge = p /\ [t EXCEPT !.purge = p].of = t.of
           /\ [t EXCEPT !.purge = p].hash = t.hash /\ [t EXCEPT !.purge = p].alone = t.alone
           /\ [t EXCEPT !.purge = p].status = t.status
  BY DEF Translation

LEMMA JobUpdate ==
    ASSUME NEW t \in Job
    PROVE  /\ [t EXCEPT !.alone = FALSE] \in Job /\ ~[t EXCEPT !.alone = FALSE].alone
           /\ [t EXCEPT !.alone = FALSE].pc = t.pc
           /\ [t EXCEPT !.pc = "purged"] \in Job /\ [t EXCEPT !.pc = "purged"].pc = "purged"
  BY DEF Job

LEMMA RecipeInvInit == RecipeInit => RecipeInv
  <1> SUFFICES ASSUME RecipeInit PROVE RecipeInv
    OBVIOUS
  <1>1. RecipeTypes
    BY ValuesTyped DEF RecipeInit, RecipeTypes, Languages
  <1>2. \A j \in Jobs : job[j].pc = "new" /\ Knows(job[j])
    BY ValuesTyped DEF RecipeInit, Knows
  <1>3. \A e \in Entities, l \in Languages : trans[e][l].status = "absent"
    BY ValuesTyped DEF RecipeInit
  <1>4. Swept
    BY <1>2, <1>3 DEF Swept, RecipeInit
  <1> QED  BY <1>1, <1>2, <1>3, <1>4 DEF RecipeInv, RecipeInit, Faithful

LEMMA TypedParts ==
    ASSUME RecipeInv
    PROVE  /\ recipe \in [status : {"absent", "live", "archived", "deleted"}, lang : Languages]
           /\ fields \in Seq(Entities) /\ dropped \subseteq Entities
           /\ text \in [Languages -> [Entities -> Texts \cup {NoText}]]
           /\ trans \in [Entities -> [Languages -> Translation]]
           /\ job \in [Jobs -> Job]
           /\ recipe.lang \in Languages /\ Elements(fields) \subseteq Entities
           /\ \A j \in Jobs : job[j] \in Job
           /\ \A e \in Entities, l \in Languages : trans[e][l] \in Translation
  <1>1. /\ recipe \in [status : {"absent", "live", "archived", "deleted"}, lang : Languages]
        /\ fields \in Seq(Entities) /\ dropped \subseteq Entities
        /\ text \in [Languages -> [Entities -> Texts \cup {NoText}]]
        /\ trans \in [Entities -> [Languages -> Translation]]
        /\ job \in [Jobs -> Job]
    BY DEF RecipeInv, RecipeTypes
  <1>2. Elements(fields) \subseteq Entities
    BY <1>1 DEF Elements
  <1> QED  BY <1>1, <1>2

LEMMA SweptParts ==
    ASSUME RecipeInv
    PROVE  /\ \A e \in Entities, l \in Languages : trans[e][l].status # "absent" =>
                 \/ e \in Elements(fields) /\ (Purging => trans[e][l].purge # "none")
                 \/ e \in dropped
                 \/ trans[e][l].purge = "late"
           /\ \A e \in dropped : e \notin Elements(fields)
           /\ \A i, j \in Jobs : job[i].pc = "purged" /\ job[j].pc = "purged" => i = j
  BY DEF RecipeInv, Swept

-----------------------------------------------------------------------------
(* Steps that move one job, and nothing else. *)

LEMMA JobMoves ==
    ASSUME RecipeInv, NEW j \in Jobs, NEW t \in Job,
           job' = [job EXCEPT ![j] = t],
           UNCHANGED <<recipe, fields, text, trans, dropped>>,
           Knows(t), recipe.status # "absent",
           job[j].pc # "purged", t.pc # "purged"
    PROVE  RecipeInv'
  <1>1. job' \in [Jobs -> Job] /\ job'[j] = t /\ \A i \in Jobs : i # j => job'[i] = job[i]
    BY TypedParts
  <1>2. RecipeTypes'
    BY <1>1 DEF RecipeInv, RecipeTypes
  <1>3. ASSUME NEW i \in Jobs
        PROVE  Knows(job[i])'
    <2>1. CASE i = j
      BY <1>1, <2>1 DEF Knows
    <2>2. CASE i # j
      BY <1>1, <2>2 DEF RecipeInv, Knows
    <2> QED  BY <2>1, <2>2
  <1>4. (Purging' <=> Purging) /\ \A i \in Jobs : job'[i].pc = "purged" => job[i].pc = "purged"
    BY <1>1 DEF Purging
  <1>5. Swept'
    BY <1>4 DEF RecipeInv, Swept
  <1>6. \A e \in Entities, l \in Languages : Faithful(trans[e][l])'
    BY DEF RecipeInv, Faithful
  <1> QED  BY <1>2, <1>3, <1>5, <1>6 DEF RecipeInv

\* A row of the recipe is there only once the recipe is.
LEMMA FieldsOfRecipe ==
    ASSUME RecipeInv
    PROVE  /\ \A e \in Elements(fields) : recipe.status # "absent"
           /\ \A j \in Jobs : job[j].pc # "new" => recipe.status # "absent"
           /\ Exists => recipe.status # "absent"
  <1>1. recipe.status = "absent" => fields = <<>> /\ \A j \in Jobs : job[j].pc = "new"
    BY DEF RecipeInv
  <1>2. fields = <<>> => Elements(fields) = {}
    BY DEF Elements
  <1> QED  BY <1>1, <1>2 DEF Exists

LEMMA ReadingSteps ==
    ASSUME RecipeInv, NEW j \in Jobs,
           \/ \E l \in Languages, confirm \in BOOLEAN : SaveRead(j, l, confirm)
           \/ DeleteCheck(j)
           \/ \E e \in Entities : LoadRecipe(j, e) \/ Author(j, e)
           \/ Translate(j) \/ HashSource(j) \/ Derive(j) \/ CheckStatus(j)
    PROVE  RecipeInv'
  <1> DEFINE r == job[j]
  <1>0. /\ r \in Job /\ r.field \in Entities /\ r.lang \in Languages /\ r.into \in Languages
        /\ r.of \in Texts \cup {NoText} /\ r.hash \in Texts \cup {NoText}
        /\ r.in \in Languages /\ r.flag \in BOOLEAN /\ r.alone \in BOOLEAN
        /\ recipe.lang \in Languages /\ Knows(r)
        /\ text \in [Languages -> [Entities -> Texts \cup {NoText}]]
        /\ Other(recipe.lang) \in Languages
    BY TypedParts, ValuesTyped DEF Job, RecipeInv
  <1>1. ASSUME NEW l \in Languages, NEW confirm \in BOOLEAN, SaveRead(j, l, confirm)
        PROVE  RecipeInv'
    <2> DEFINE t == [Fresh EXCEPT !.pc = "save", !.lang = recipe.lang,
                                  !.into = l, !.flag = confirm]
    <2>1. t \in Job /\ t.pc = "save"
      BY <1>0, ValuesTyped DEF Job
    <2>2. /\ job' = [job EXCEPT ![j] = t] /\ r.pc = "new"
          /\ UNCHANGED <<recipe, fields, text, trans, dropped>> /\ recipe.status # "absent"
      BY <1>1, FieldsOfRecipe DEF SaveRead
    <2> HIDE DEF t
    <2>3. Knows(t)
      BY <2>1 DEF Knows
    <2> QED  BY <2>1, <2>2, <2>3, JobMoves
  <1>2. ASSUME DeleteCheck(j)
        PROVE  RecipeInv'
    <2> DEFINE t == [r EXCEPT !.pc = "delete"]
    <2>1. t \in Job /\ t.pc = "delete"
      BY <1>0 DEF Job
    <2>2. /\ job' = [job EXCEPT ![j] = t] /\ r.pc = "new"
          /\ UNCHANGED <<recipe, fields, text, trans, dropped>> /\ recipe.status # "absent"
      BY <1>2, TypedParts DEF DeleteCheck, Step
    <2> HIDE DEF t
    <2>3. Knows(t)
      BY <2>1 DEF Knows
    <2> QED  BY <2>1, <2>2, <2>3, JobMoves
  <1>3. ASSUME NEW e \in Entities, LoadRecipe(j, e)
        PROVE  RecipeInv'
    <2>1. PICK replace \in BOOLEAN :
             job' = [job EXCEPT ![j] = [Fresh EXCEPT !.pc = "load", !.field = e,
                                          !.lang = recipe.lang, !.flag = replace]]
      BY <1>3 DEF LoadRecipe
    <2> DEFINE t == [Fresh EXCEPT !.pc = "load", !.field = e,
                                  !.lang = recipe.lang, !.flag = replace]
    <2>2. t \in Job /\ t.pc = "load" /\ t.lang = recipe.lang
      BY <1>0, ValuesTyped DEF Job
    <2>3. /\ job' = [job EXCEPT ![j] = t] /\ r.pc = "new"
          /\ UNCHANGED <<recipe, fields, text, trans, dropped>> /\ recipe.status # "absent"
      BY <1>3, <2>1, FieldsOfRecipe DEF LoadRecipe
    <2> HIDE DEF t
    <2>4. Knows(t)
      BY <2>2 DEF Knows
    <2> QED  BY <2>2, <2>3, <2>4, JobMoves
  <1>4. ASSUME NEW e \in Entities, Author(j, e)
        PROVE  RecipeInv'
    <2>1. PICK force \in BOOLEAN :
             job' = [job EXCEPT ![j] = [Fresh EXCEPT !.pc = "write", !.kind = "manual",
                      !.field = e, !.of = text[recipe.lang][e], !.in = Other(recipe.lang),
                      !.into = Other(recipe.lang), !.flag = force]]
      BY <1>4 DEF Author
    <2> DEFINE o == Other(recipe.lang)
               x == text[recipe.lang][e]
               t == [Fresh EXCEPT !.pc = "write", !.kind = "manual", !.field = e, !.of = x,
                                  !.in = o, !.into = o, !.flag = force]
    <2>0. o \in Languages /\ x \in Texts \cup {NoText}
      BY <1>0
    <2>3. /\ job' = [job EXCEPT ![j] = t] /\ r.pc = "new"
          /\ UNCHANGED <<recipe, fields, text, trans, dropped>> /\ recipe.status # "absent"
      BY <1>4, <2>1, FieldsOfRecipe DEF Author
    <2> HIDE DEF o, x
    <2>2. t \in Job /\ t.pc = "write" /\ t.field = e /\ t.of = x
      BY <2>0, ValuesTyped DEF Job
    <2> HIDE DEF t
    <2>4. Knows(t)
      BY <2>2 DEF Knows, x
    <2> QED  BY <2>2, <2>3, <2>4, JobMoves
  <1>5. ASSUME Translate(j)
        PROVE  RecipeInv'
    <2> DEFINE t == [r EXCEPT !.pc = "write", !.of = text[r.lang][r.field],
                              !.in = Direction(r.lang)[2]]
    <2>1. Direction(r.lang)[2] \in Languages /\ text[r.lang][r.field] \in Texts \cup {NoText}
      BY <1>0 DEF Direction, Languages
    <2>2. /\ t \in Job /\ t.pc = "write" /\ t.field = r.field
          /\ t.of = text[r.lang][r.field] /\ t.alone = r.alone
      BY <1>0, <2>1 DEF Job
    <2>3. /\ job' = [job EXCEPT ![j] = t] /\ r.pc = "load"
          /\ UNCHANGED <<recipe, fields, text, trans, dropped>> /\ recipe.status # "absent"
      BY <1>5, FieldsOfRecipe DEF Translate
    <2> HIDE DEF t
    <2>4. Knows(t)
      BY <1>0, <2>2, <2>3 DEF Knows
    <2> QED  BY <2>2, <2>3, <2>4, JobMoves
  <1>6. ASSUME HashSource(j)
        PROVE  RecipeInv'
    <2> DEFINE t == [r EXCEPT !.pc = "direction", !.hash = text[recipe.lang][r.field]]
    <2>1. text[recipe.lang][r.field] \in Texts \cup {NoText}
      BY <1>0
    <2>2. /\ t \in Job /\ t.pc = "direction" /\ t.of = r.of
          /\ t.hash = text[recipe.lang][r.field] /\ t.alone = r.alone
      BY <1>0, <2>1 DEF Job
    <2>3. /\ job' = [job EXCEPT ![j] = t] /\ r.pc = "write"
          /\ text[recipe.lang][r.field] # NoText
          /\ UNCHANGED <<recipe, fields, text, trans, dropped>> /\ recipe.status # "absent"
      BY <1>6, FieldsOfRecipe DEF HashSource
    <2> HIDE DEF t
    <2>4. Knows(t)
      BY <1>0, <2>2, <2>3 DEF Knows
    <2> QED  BY <2>2, <2>3, <2>4, JobMoves
  <1>7. ASSUME Derive(j)
        PROVE  RecipeInv'
    <2> DEFINE l == IF r.field \in Elements(fields) THEN recipe.lang ELSE "ja"
               m == IF r.kind = "manual" THEN r.into ELSE Other(l)
               t == [r EXCEPT !.pc = "check", !.into = m]
    <2>1. m \in Languages
      BY <1>0, ValuesTyped DEF Languages
    <2>2. job' = [job EXCEPT ![j] = t] /\ r.pc = "direction"
      BY <1>7 DEF Derive
    <2> HIDE DEF m
    <2>3. t \in Job /\ t.pc = "check" /\ t.of = r.of /\ t.hash = r.hash /\ t.alone = r.alone
      BY <1>0, <2>1 DEF Job
    <2>4. UNCHANGED <<recipe, fields, text, trans, dropped>> /\ recipe.status # "absent"
      BY <1>7, FieldsOfRecipe DEF Derive
    <2> HIDE DEF t
    <2>5. Knows(t)
      BY <1>0, <2>2, <2>3 DEF Knows
    <2> QED  BY <2>2, <2>3, <2>4, <2>5, JobMoves
  <1>8. ASSUME CheckStatus(j)
        PROVE  RecipeInv'
    <2> DEFINE s == trans[r.field][r.into].status
               t == [r EXCEPT !.pc = "upsert", !.seen = s]
    <2>1. s \in {"absent", "machine", "reviewed", "stale"}
      BY <1>0, TypedParts DEF Translation
    <2>2. job' = [job EXCEPT ![j] = t] /\ r.pc = "check"
      BY <1>8 DEF CheckStatus
    <2> HIDE DEF s
    <2>3. t \in Job /\ t.pc = "upsert" /\ t.of = r.of /\ t.hash = r.hash /\ t.alone = r.alone
      BY <1>0, <2>1 DEF Job
    <2>4. UNCHANGED <<recipe, fields, text, trans, dropped>> /\ recipe.status # "absent"
      BY <1>8, FieldsOfRecipe DEF CheckStatus
    <2> HIDE DEF t
    <2>5. Knows(t)
      BY <1>0, <2>2, <2>3 DEF Knows
    <2> QED  BY <2>2, <2>3, <2>4, <2>5, JobMoves
  <1> QED  BY <1>1, <1>2, <1>3, <1>4, <1>5, <1>6, <1>7, <1>8

-----------------------------------------------------------------------------
(* Saves. *)

LEMMA PlaceEffect ==
    ASSUME RecipeInv, NEW l \in Languages, NEW input \in Inputs,
           NEW ids \in [DOMAIN input -> Entities], Place(ids, input, l)
    PROVE  /\ fields' \in Seq(Entities) /\ dropped' \subseteq Entities
           /\ text' \in [Languages -> [Entities -> Texts \cup {NoText}]]
           /\ Elements(fields') = Elements(ids)
           /\ dropped' = dropped \cup (Elements(fields) \ Elements(ids))
           /\ \A e \in Elements(ids) : e \in Elements(fields) \/ e \notin dropped
  <1>1. /\ DOMAIN ids = DOMAIN input /\ fields' = ids
        /\ \A i \in DOMAIN ids : IF i <= Len(fields) THEN ids[i] = fields[i]
                                 ELSE ids[i] \notin Elements(fields) \cup dropped
        /\ text' = [m \in Languages |-> [e \in Entities |->
                       IF e \notin Elements(ids) THEN NoText
                       ELSE IF m = l THEN input[CHOOSE i \in DOMAIN ids : ids[i] = e]
                       ELSE text[m][e]]]
        /\ dropped' = dropped \cup (Elements(fields) \ Elements(ids))
    BY DEF Place
  <1>2. PICK n \in 1..MaxFields : input \in [1..n -> Texts]
    BY DEF Inputs
  <1>3. ids \in [1..n -> Entities] /\ n \in Nat
    BY <1>2, RecipeValues
  <1>4. ids \in Seq(Entities)
    BY <1>3
  <1>5. ASSUME NEW m \in Languages, NEW e \in Entities
        PROVE  (IF e \notin Elements(ids) THEN NoText
                ELSE IF m = l THEN input[CHOOSE i \in DOMAIN ids : ids[i] = e]
                ELSE text[m][e]) \in Texts \cup {NoText}
    <2>1. ASSUME e \in Elements(ids)
          PROVE  input[CHOOSE i \in DOMAIN ids : ids[i] = e] \in Texts
      <3>1. PICK i \in DOMAIN ids : ids[i] = e
        BY <2>1 DEF Elements
      <3>2. (CHOOSE k \in DOMAIN ids : ids[k] = e) \in DOMAIN ids
        BY <3>1
      <3> QED  BY <1>2, <1>3, <3>2
    <2> QED  BY <2>1, TypedParts
  <1>6. text' \in [Languages -> [Entities -> Texts \cup {NoText}]]
    BY <1>1, <1>5
  <1>7. ASSUME NEW e \in Elements(ids)
        PROVE  e \in Elements(fields) \/ e \notin dropped
    <2>1. PICK i \in DOMAIN ids : ids[i] = e
      BY DEF Elements
    <2>2. i \in 1..n
      BY <1>3
    <2>3. CASE i <= Len(fields)
      <3>1. i \in DOMAIN fields
        BY <2>2, <2>3, TypedParts
      <3>2. e = fields[i]
        BY <1>1, <2>1, <2>3
      <3> QED  BY <3>1, <3>2 DEF Elements
    <2>4. CASE ~(i <= Len(fields))
      BY <1>1, <2>1, <2>4
    <2> QED  BY <2>3, <2>4
  <1>8. Elements(fields) \subseteq Entities
    BY TypedParts
  <1>9. dropped' \subseteq Entities
    BY <1>1, <1>8, TypedParts
  <1> QED  BY <1>1, <1>4, <1>6, <1>7, <1>9

LEMMA CreateInv ==
    ASSUME RecipeInv, NEW l \in Languages, NEW input \in Inputs,
           NEW ids \in [DOMAIN input -> Entities], CreateRecipe(l, input, ids)
    PROVE  RecipeInv'
  <1>1. /\ recipe.status = "absent" /\ recipe' = [status |-> "live", lang |-> l]
        /\ Place(ids, input, l) /\ UNCHANGED <<trans, job>>
    BY DEF CreateRecipe
  <1>2. /\ fields' \in Seq(Entities) /\ dropped' \subseteq Entities
        /\ text' \in [Languages -> [Entities -> Texts \cup {NoText}]]
        /\ Elements(fields') = Elements(ids)
        /\ dropped' = dropped \cup (Elements(fields) \ Elements(ids))
        /\ \A e \in Elements(ids) : e \in Elements(fields) \/ e \notin dropped
    BY <1>1, PlaceEffect
  <1>3. fields = <<>> /\ \A j \in Jobs : job[j].pc = "new"
    BY <1>1 DEF RecipeInv
  <1>4. Elements(fields) = {}
    BY <1>3 DEF Elements
  <1>5. RecipeTypes'
    BY <1>1, <1>2, TypedParts DEF RecipeTypes
  <1>6. Swept'
    <2>1. ~Purging' /\ \A j \in Jobs : job'[j].pc = "new"
      BY <1>1, <1>3 DEF Purging
    <2>2. \A e \in Entities, m \in Languages : trans'[e][m].status # "absent" =>
             e \in dropped' \/ trans'[e][m].purge = "late"
      BY <1>1, <1>2, <1>4, SweptParts
    <2>3. \A e \in dropped' : e \notin Elements(fields')
      BY <1>2, <1>4
    <2> QED  BY <2>1, <2>2, <2>3 DEF Swept
  <1>7. \A j \in Jobs : Knows(job[j])'
    BY <1>1, <1>3 DEF Knows
  <1>8. \A e \in Entities, m \in Languages : Faithful(trans[e][m])'
    BY <1>1 DEF RecipeInv, Faithful
  <1> QED  BY <1>1, <1>5, <1>6, <1>7, <1>8 DEF RecipeInv

LEMMA SaveWriteInv ==
    ASSUME RecipeInv, NEW j \in Jobs, NEW input \in Inputs,
           NEW ids \in [DOMAIN input -> Entities], SaveWrite(j, input, ids)
    PROVE  RecipeInv'
  <1> DEFINE l == job[j].into
  <1>1. /\ job[j].pc = "save" /\ recipe' = [status |-> "live", lang |-> l]
        /\ Place(ids, input, l)
        /\ trans' = [e \in Entities |-> [m \in Languages |->
                       IF /\ job[j].lang # l /\ e \in Elements(ids)
                          /\ trans[e][m].status # "absent"
                       THEN [trans[e][m] EXCEPT !.status = "stale"] ELSE trans[e][m]]]
        /\ job' = [Overlapped EXCEPT ![j] = Ended]
    BY DEF SaveWrite
  <1>2. l \in Languages
    BY TypedParts DEF Job
  <1>3. /\ fields' \in Seq(Entities) /\ dropped' \subseteq Entities
        /\ text' \in [Languages -> [Entities -> Texts \cup {NoText}]]
        /\ Elements(fields') = Elements(ids)
        /\ dropped' = dropped \cup (Elements(fields) \ Elements(ids))
        /\ \A e \in Elements(ids) : e \in Elements(fields) \/ e \notin dropped
    BY <1>1, <1>2, PlaceEffect
  <1>4. ASSUME NEW e \in Entities, NEW m \in Languages
        PROVE  /\ trans'[e][m] \in Translation
               /\ trans'[e][m].status = "absent" <=> trans[e][m].status = "absent"
               /\ trans'[e][m].of = trans[e][m].of /\ trans'[e][m].hash = trans[e][m].hash
               /\ trans'[e][m].alone = trans[e][m].alone
               /\ trans'[e][m].purge = trans[e][m].purge
    <2>1. /\ trans[e][m] \in Translation
          /\ trans'[e][m] = IF /\ job[j].lang # l /\ e \in Elements(ids)
                               /\ trans[e][m].status # "absent"
                            THEN [trans[e][m] EXCEPT !.status = "stale"] ELSE trans[e][m]
      BY <1>1, TypedParts
    <2> QED  BY <2>1 DEF Translation
  <1>5. trans' \in [Entities -> [Languages -> Translation]]
    <2>1. \A e \in Entities, m \in Languages :
             (IF /\ job[j].lang # l /\ e \in Elements(ids) /\ trans[e][m].status # "absent"
              THEN [trans[e][m] EXCEPT !.status = "stale"] ELSE trans[e][m]) \in Translation
      BY TypedParts, StatusUpdate
    <2> QED  BY <1>1, <2>1
  <1>6. ASSUME NEW i \in Jobs
        PROVE  /\ Overlapped[i] \in Job /\ Overlapped[i].pc = job[i].pc
               /\ Overlapped[i].pc \in {"new", "done"} \/ ~Overlapped[i].alone
    <2>1. /\ job[i] \in Job
          /\ Overlapped[i] = IF job[i].pc \in {"new", "done"} THEN job[i]
                             ELSE [job[i] EXCEPT !.alone = FALSE]
      BY TypedParts DEF Overlapped
    <2> QED  BY <2>1, JobUpdate
  <1>7. /\ job' \in [Jobs -> Job] /\ job'[j].pc = "done"
        /\ \A i \in Jobs : i # j => job'[i] = Overlapped[i]
    <2>1. Overlapped \in [Jobs -> Job]
      BY <1>6 DEF Overlapped
    <2> QED  BY <1>1, <2>1, ValuesTyped
  <1>8. RecipeTypes'
    BY <1>1, <1>2, <1>3, <1>5, <1>7 DEF RecipeTypes
  <1>9. ASSUME NEW i \in Jobs
        PROVE  Knows(job[i])'
    BY <1>6, <1>7 DEF Knows
  <1>10. (Purging' <=> Purging) /\ \A i \in Jobs : job'[i].pc = "purged" => job[i].pc = "purged"
    BY <1>1, <1>6, <1>7 DEF Purging
  <1>11. Swept'
    <2>1. ASSUME NEW e \in Entities, NEW m \in Languages, trans'[e][m].status # "absent"
          PROVE  \/ e \in Elements(fields') /\ (Purging' => trans'[e][m].purge # "none")
                 \/ e \in dropped'
                 \/ trans'[e][m].purge = "late"
      <3>1. trans[e][m].status # "absent" /\ trans'[e][m].purge = trans[e][m].purge
        BY <1>4, <2>1
      <3>2. \/ e \in Elements(fields) /\ (Purging => trans[e][m].purge # "none")
            \/ e \in dropped
            \/ trans[e][m].purge = "late"
        BY <3>1, SweptParts
      <3> QED  BY <1>3, <1>10, <3>1, <3>2
    <2>2. \A e \in dropped' : e \notin Elements(fields')
      BY <1>3, SweptParts
    <2>3. \A i, k \in Jobs : job'[i].pc = "purged" /\ job'[k].pc = "purged" => i = k
      BY <1>10, SweptParts
    <2> QED  BY <2>1, <2>2, <2>3 DEF Swept
  <1>12. \A e \in Entities, m \in Languages : Faithful(trans[e][m])'
    BY <1>4 DEF RecipeInv, Faithful
  <1> QED  BY <1>1, <1>8, <1>9, <1>11, <1>12 DEF RecipeInv

-----------------------------------------------------------------------------
(* Deletions and the writes of a translation. *)

\* Translations change their status or their purge, or are gone.
LEMMA DeletionSteps ==
    ASSUME RecipeInv, NEW j \in Jobs,
           DeleteTranslations(j) \/ DeleteRecipe(j) \/ DeleteAborts(j)
    PROVE  RecipeInv'
  <1>0. recipe.status # "absent"
    BY FieldsOfRecipe DEF DeleteTranslations, DeleteRecipe, DeleteAborts, Step, Finish
  <1>2. ASSUME DeleteTranslations(j)
        PROVE  RecipeInv'
    <2>1. /\ ~Purging /\ job[j].pc = "delete" /\ job' = [job EXCEPT ![j].pc = "purged"]
          /\ trans' = [e \in Entities |-> [l \in Languages |->
                         IF Doomed(e) /\ trans[e][l].status # "absent"
                         THEN [trans[e][l] EXCEPT !.purge = "doomed"] ELSE trans[e][l]]]
          /\ UNCHANGED <<recipe, fields, text, dropped>>
      BY <1>2 DEF DeleteTranslations, Step
    <2>2. /\ job' \in [Jobs -> Job] /\ job'[j].pc = "purged"
          /\ \A i \in Jobs : i # j => job'[i] = job[i]
      BY <2>1, TypedParts, JobUpdate
    <2>3. ASSUME NEW e \in Entities, NEW l \in Languages
          PROVE  /\ trans'[e][l] \in Translation
                 /\ trans'[e][l].status = trans[e][l].status
                 /\ trans'[e][l].of = trans[e][l].of /\ trans'[e][l].hash = trans[e][l].hash
                 /\ trans'[e][l].alone = trans[e][l].alone
                 /\ e \in Elements(fields) /\ trans[e][l].status # "absent" =>
                       trans'[e][l].purge = "doomed"
                 /\ e \notin Elements(fields) => trans'[e][l] = trans[e][l]
      <3>1. trans'[e][l] = IF Doomed(e) /\ trans[e][l].status # "absent"
                           THEN [trans[e][l] EXCEPT !.purge = "doomed"] ELSE trans[e][l]
        BY <2>1
      <3>2. trans[e][l] \in Translation
        BY TypedParts
      <3> QED  BY <3>1, <3>2 DEF Doomed, Translation
    <2>4. trans' \in [Entities -> [Languages -> Translation]]
      <3>1. \A e \in Entities, l \in Languages :
               (IF Doomed(e) /\ trans[e][l].status # "absent"
                THEN [trans[e][l] EXCEPT !.purge = "doomed"] ELSE trans[e][l]) \in Translation
        BY TypedParts, PurgeUpdate
      <3> QED  BY <2>1, <3>1
    <2>5. RecipeTypes'
      BY <2>1, <2>2, <2>4 DEF RecipeInv, RecipeTypes
    <2>6. ASSUME NEW i \in Jobs PROVE Knows(job[i])'
      BY <2>1, <2>2 DEF RecipeInv, Knows
    <2>7. Swept'
      <3>1. \A e \in Entities, l \in Languages : trans'[e][l].status # "absent" =>
                 \/ e \in Elements(fields) /\ trans'[e][l].purge # "none"
                 \/ e \in dropped
                 \/ trans'[e][l].purge = "late"
        BY <2>3, SweptParts
      <3>2. \A i \in Jobs : job'[i].pc = "purged" => i = j
        BY <2>1, <2>2 DEF Purging
      <3>3. \A e \in dropped' : e \notin Elements(fields')
        BY <2>1, SweptParts
      <3>4. UNCHANGED <<fields, dropped>>
        BY <2>1
      <3> QED  BY <3>1, <3>2, <3>3, <3>4 DEF Swept
    <2>8. \A e \in Entities, l \in Languages : Faithful(trans[e][l])'
      BY <2>3 DEF RecipeInv, Faithful
    <2> QED  BY <1>0, <2>1, <2>5, <2>6, <2>7, <2>8 DEF RecipeInv
  <1>3. ASSUME DeleteRecipe(j)
        PROVE  RecipeInv'
    <2>1. /\ job[j].pc = "purged" /\ job' = [job EXCEPT ![j] = Ended]
          /\ recipe' = [recipe EXCEPT !.status = "deleted"] /\ fields' = <<>>
          /\ text' = [l \in Languages |-> [e \in Entities |-> NoText]]
          /\ trans' = [e \in Entities |-> [l \in Languages |->
                         IF trans[e][l].purge = "doomed" THEN NoTranslation ELSE trans[e][l]]]
          /\ dropped' = dropped
      BY <1>3 DEF DeleteRecipe, Finish
    <2>2. /\ job' \in [Jobs -> Job] /\ job'[j].pc = "done"
          /\ \A i \in Jobs : i # j => job'[i] = job[i]
      BY <2>1, TypedParts, ValuesTyped
    <2>3. trans' \in [Entities -> [Languages -> Translation]]
      BY <2>1, TypedParts, ValuesTyped
    <2>4. ASSUME NEW e \in Entities, NEW l \in Languages
          PROVE  \/ trans'[e][l].status = "absent"
                 \/ trans'[e][l] = trans[e][l] /\ trans[e][l].purge # "doomed"
      BY <2>1, ValuesTyped
    <2>5. /\ recipe' \in [status : {"absent", "live", "archived", "deleted"}, lang : Languages]
          /\ recipe'.lang = recipe.lang /\ recipe'.status = "deleted"
      BY <2>1, TypedParts
    <2>6. RecipeTypes'
      BY <2>1, <2>2, <2>3, <2>5, TypedParts DEF RecipeTypes
    <2>7. ASSUME NEW i \in Jobs PROVE Knows(job[i])'
      <3>1. text'[recipe'.lang][job[i].field] = NoText
        BY <2>1, <2>5, TypedParts DEF Job
      <3>2. CASE i = j
        BY <2>2, <3>2 DEF Knows
      <3>3. CASE i # j
        BY <2>2, <2>5, <3>1, <3>3 DEF RecipeInv, Knows
      <3> QED  BY <3>2, <3>3
    <2>8. Swept'
      <3>1. Purging
        BY <2>1 DEF Purging
      <3>2. ~Purging'
        BY <2>1, <2>2 DEF Purging, RecipeInv, Swept
      <3>3. ASSUME NEW e \in Entities, NEW l \in Languages, trans'[e][l].status # "absent"
            PROVE  e \in dropped' \/ trans'[e][l].purge = "late"
        <4>1. trans'[e][l] = trans[e][l] /\ trans[e][l].purge # "doomed"
          BY <2>4, <3>3
        <4>2. trans[e][l].purge \in {"none", "doomed", "late"}
          BY TypedParts DEF Translation
        <4> QED  BY <2>1, <3>1, <3>3, <4>1, <4>2, SweptParts
      <3>4. \A i \in Jobs : job'[i].pc # "purged"
        BY <3>2 DEF Purging
      <3>5. Elements(fields') = {}
        BY <2>1 DEF Elements
      <3> QED  BY <3>2, <3>3, <3>4, <3>5 DEF Swept
    <2>9. \A e \in Entities, l \in Languages : Faithful(trans[e][l])'
      BY <2>4 DEF RecipeInv, Faithful
    <2> QED  BY <2>5, <2>6, <2>7, <2>8, <2>9 DEF RecipeInv
  <1>4. ASSUME DeleteAborts(j)
        PROVE  RecipeInv'
    <2>1. /\ job[j].pc = "purged" /\ job' = [job EXCEPT ![j] = Ended]
          /\ trans' = [e \in Entities |-> [l \in Languages |->
                         IF trans[e][l].purge = "doomed"
                         THEN [trans[e][l] EXCEPT !.purge = "none"] ELSE trans[e][l]]]
          /\ UNCHANGED <<recipe, fields, text, dropped>>
      BY <1>4 DEF DeleteAborts, Finish
    <2>2. /\ job' \in [Jobs -> Job] /\ job'[j].pc = "done"
          /\ \A i \in Jobs : i # j => job'[i] = job[i]
      BY <2>1, TypedParts, ValuesTyped
    <2>3. ASSUME NEW e \in Entities, NEW l \in Languages
          PROVE  /\ trans'[e][l].status = trans[e][l].status
                 /\ trans'[e][l].of = trans[e][l].of /\ trans'[e][l].hash = trans[e][l].hash
                 /\ trans'[e][l].alone = trans[e][l].alone
                 /\ trans[e][l].purge = "late" => trans'[e][l].purge = "late"
      <3>1. trans'[e][l] = IF trans[e][l].purge = "doomed"
                           THEN [trans[e][l] EXCEPT !.purge = "none"] ELSE trans[e][l]
        BY <2>1
      <3>2. trans[e][l] \in Translation
        BY TypedParts
      <3> QED  BY <3>1, <3>2 DEF Translation
    <2>4. trans' \in [Entities -> [Languages -> Translation]]
      <3>1. \A e \in Entities, l \in Languages :
               (IF trans[e][l].purge = "doomed"
                THEN [trans[e][l] EXCEPT !.purge = "none"] ELSE trans[e][l]) \in Translation
        BY TypedParts, PurgeUpdate
      <3> QED  BY <2>1, <3>1
    <2>5. RecipeTypes'
      BY <2>1, <2>2, <2>4 DEF RecipeInv, RecipeTypes
    <2>6. ASSUME NEW i \in Jobs PROVE Knows(job[i])'
      BY <2>1, <2>2 DEF RecipeInv, Knows
    <2>7. Swept'
      <3>1. ~Purging'
        BY <2>1, <2>2 DEF Purging, RecipeInv, Swept
      <3> QED  BY <2>1, <2>2, <2>3, <3>1 DEF RecipeInv, Swept, Purging
    <2>8. \A e \in Entities, l \in Languages : Faithful(trans[e][l])'
      BY <2>3 DEF RecipeInv, Faithful
    <2> QED  BY <1>0, <2>1, <2>5, <2>6, <2>7, <2>8 DEF RecipeInv
  <1> QED  BY <1>2, <1>3, <1>4

\* One translation is written or marked; t is what it becomes.
LEMMA OneTranslation ==
    ASSUME RecipeInv, NEW e \in Elements(fields), NEW l \in Languages, NEW t \in Translation,
           trans' = [trans EXCEPT ![e][l] = t], Faithful(t),
           Purging => t.purge # "none",
           job' \in [Jobs -> Job], \A i \in Jobs : job'[i] = job[i] \/ job'[i].pc = "done",
           Purging' <=> Purging,
           UNCHANGED <<recipe, fields, text, dropped>>
    PROVE  RecipeInv'
  <1>1. e \in Entities /\ recipe.status # "absent"
    BY TypedParts, FieldsOfRecipe
  <1>2. /\ trans' \in [Entities -> [Languages -> Translation]] /\ trans'[e][l] = t
        /\ \A x \in Entities, m \in Languages : x # e \/ m # l => trans'[x][m] = trans[x][m]
    <2>1. trans' = [trans EXCEPT ![e] = [trans[e] EXCEPT ![l] = t]]
      BY <1>1, TypedParts
    <2> QED  BY <1>1, <2>1, TypedParts
  <1>3. RecipeTypes'
    BY <1>2 DEF RecipeInv, RecipeTypes
  <1>4. \A i \in Jobs : Knows(job[i])'
    BY DEF RecipeInv, Knows
  <1>5. Swept'
    <2>1. ASSUME NEW x \in Entities, NEW m \in Languages, trans'[x][m].status # "absent"
          PROVE  \/ x \in Elements(fields) /\ (Purging => trans'[x][m].purge # "none")
                 \/ x \in dropped
                 \/ trans'[x][m].purge = "late"
      <3>1. CASE x = e /\ m = l
        BY <1>2, <3>1
      <3>2. CASE x # e \/ m # l
        BY <1>2, <2>1, <3>2 DEF RecipeInv, Swept
      <3> QED  BY <3>1, <3>2
    <2>2. \A i \in Jobs : job'[i].pc = "purged" => job[i].pc = "purged"
      OBVIOUS
    <2> QED  BY <2>1, <2>2 DEF RecipeInv, Swept
  <1>6. \A x \in Entities, m \in Languages : Faithful(trans[x][m])'
    BY <1>2 DEF RecipeInv, Faithful
  <1> QED  BY <1>1, <1>3, <1>4, <1>5, <1>6 DEF RecipeInv

LEMMA UpsertInv ==
    ASSUME RecipeInv, NEW j \in Jobs, Upsert(j)
    PROVE  RecipeInv'
  <1> DEFINE r == job[j]
             s == IF r.kind = "manual" THEN "reviewed" ELSE "machine"
             p == IF Purging THEN "late" ELSE "none"
             t == [status |-> s, of |-> r.of, in |-> r.in, hash |-> r.hash,
                   alone |-> r.alone, purge |-> p]
  <1>1. /\ r.field \in Elements(fields) /\ r.pc = "upsert" /\ job' = [job EXCEPT ![j] = Ended]
        /\ trans' = [trans EXCEPT ![r.field][r.into] = t]
        /\ UNCHANGED <<recipe, fields, text, dropped>>
    BY DEF Upsert, Finish
  <1>2. /\ r.of \in Texts \cup {NoText} /\ r.hash \in Texts \cup {NoText}
        /\ r.in \in Languages /\ r.alone \in BOOLEAN /\ r.into \in Languages
        /\ s \in {"absent", "machine", "reviewed", "stale"} /\ p \in {"none", "doomed", "late"}
        /\ Purging => p # "none"
    BY TypedParts DEF Job
  <1>3. r.alone => r.hash = r.of
    BY <1>1 DEF RecipeInv, Knows
  <1>4. /\ job' \in [Jobs -> Job] /\ job'[j].pc = "done"
        /\ \A i \in Jobs : i # j => job'[i] = job[i]
    BY <1>1, TypedParts, ValuesTyped
  <1>5. Purging' <=> Purging
    BY <1>1, <1>4 DEF Purging
  <1> HIDE DEF s, p
  <1>6. t \in Translation /\ Faithful(t) /\ (Purging => t.purge # "none")
    BY <1>2, <1>3 DEF Translation, Faithful
  <1> HIDE DEF t
  <1>7. \A i \in Jobs : job'[i] = job[i] \/ job'[i].pc = "done"
    BY <1>4
  <1> QED  BY <1>1, <1>2, <1>4, <1>5, <1>6, <1>7, OneTranslation

LEMMA MarkReviewedInv ==
    ASSUME RecipeInv, NEW e \in Entities, NEW l \in Languages, MarkReviewed(e, l)
    PROVE  RecipeInv'
  <1> DEFINE t == [trans[e][l] EXCEPT !.status = "reviewed"]
  <1>1. /\ e \in Elements(fields) /\ trans[e][l].status # "absent"
        /\ UNCHANGED <<recipe, fields, text, job, dropped>>
        /\ trans' = [trans EXCEPT ![e][l] = t]
    BY TypedParts DEF MarkReviewed
  <1>2. /\ t \in Translation /\ t.purge = trans[e][l].purge /\ t.alone = trans[e][l].alone
        /\ t.hash = trans[e][l].hash /\ t.of = trans[e][l].of
    BY TypedParts, StatusUpdate
  <1> HIDE DEF t
  <1>3. Faithful(t)
    BY <1>1, <1>2 DEF RecipeInv, Faithful
  <1>4. job' = job /\ (Purging' <=> Purging)
    BY <1>1 DEF Purging
  <1>5. Purging => t.purge # "none"
    BY <1>1, <1>2, SweptParts
  <1>6. job' \in [Jobs -> Job] /\ (\A i \in Jobs : job'[i] = job[i] \/ job'[i].pc = "done")
    BY <1>4, TypedParts
  <1>7. e \in Elements(fields) /\ t \in Translation /\ UNCHANGED <<recipe, fields, text, dropped>>
    BY <1>1, <1>2
  <1>8. trans' = [trans EXCEPT ![e][l] = t]
    BY <1>1
  <1> HIDE DEF t
  <1> QED  BY <1>3, <1>4, <1>5, <1>6, <1>7, <1>8, OneTranslation

LEMMA ArchiveInv ==
    ASSUME RecipeInv, NEW s \in {"archived", "live"}, SetArchived(s)
    PROVE  RecipeInv'
  <1>1. /\ recipe.status # "absent" /\ UNCHANGED <<fields, text, trans, job, dropped>>
        /\ recipe' \in [status : {"absent", "live", "archived", "deleted"}, lang : Languages]
        /\ recipe'.lang = recipe.lang /\ recipe'.status # "absent"
    BY TypedParts DEF SetArchived, Exists
  <1>2. RecipeTypes'
    BY <1>1 DEF RecipeInv, RecipeTypes
  <1> QED  BY <1>1, <1>2 DEF RecipeInv, Knows, Faithful, Swept, Purging

LEMMA RecipeInvNext ==
    ASSUME RecipeInv, [RecipeNext]_recipeVars
    PROVE  RecipeInv'
  <1>1. CASE UNCHANGED recipeVars
    BY <1>1 DEF recipeVars, RecipeInv, RecipeTypes, Knows, Faithful, Swept, Purging
  <1>2. CASE RecipeNext
    BY <1>2, CreateInv, ArchiveInv, MarkReviewedInv, SaveWriteInv, DeletionSteps, ReadingSteps,
       UpsertInv DEF RecipeNext
  <1> QED  BY <1>1, <1>2

THEOREM RecipeInvariant == RecipeSpec => []RecipeInv
  BY RecipeInvInit, RecipeInvNext, PTL DEF RecipeSpec

(* The recipe, its translations and the jobs keep their types: the part that *)
(* PartTypes states for recipes.                                             *)
THEOREM RecipeTypesHold == RecipeSpec => []RecipeTypes
  <1>1. RecipeInv => RecipeTypes
    BY DEF RecipeInv
  <1> QED  BY <1>1, RecipeInvariant, PTL

(* Whatever texts, rows and jobs there are: a text that is marked as a       *)
(* translation translates the text as it stands, unless a save overtook its  *)
(* making.                                                                   *)
THEOREM ReadersSeeCurrent == RecipeSpec => []ShownIsCurrent
  BY RecipeInvImplies, RecipeInvariant, PTL

(* A permanent deletion leaves behind only the translations of rows that a   *)
(* save had removed before, and those written while it was deleting.         *)
THEOREM DeletionSweeps == RecipeSpec => []NothingElseLeftBehind
  BY RecipeInvImplies, RecipeInvariant, PTL
-----------------------------------------------------------------------------
(* Requests.  What a save and a writer have been told and have seen, which   *)
(* is what justifies the change they make in the end.                        *)

Justified(t) ==
    /\ t.pc = "save" => (t.into # t.lang => t.flag) /\ (t.alone => t.lang = recipe.lang)
    /\ t.pc = "upsert" => (t.seen = "reviewed" => t.flag)

RequestInv ==
    /\ RecipeInv
    /\ \A j \in Jobs : Justified(job[j])

\* A job that has moved to t, while the recipe keeps its language.
LEMMA JobJustified ==
    ASSUME RequestInv, RecipeInv', recipe'.lang = recipe.lang,
           NEW j \in Jobs, NEW t \in Job, job' = [job EXCEPT ![j] = t],
           t.pc \notin {"save", "upsert"} \/ Justified(t)
    PROVE  RequestInv'
  <1>1. job'[j] = t /\ \A i \in Jobs : i # j => job'[i] = job[i]
    BY TypedParts DEF RequestInv
  <1>2. \A i \in Jobs : i # j => Justified(job[i])'
    BY <1>1 DEF RequestInv, Justified
  <1>3. Justified(job[j])'
    BY <1>1 DEF Justified
  <1> QED  BY <1>2, <1>3 DEF RequestInv

LEMMA SaveReadJustified ==
    ASSUME RequestInv, RecipeInv', NEW j \in Jobs, NEW l \in Languages, NEW confirm \in BOOLEAN,
           SaveRead(j, l, confirm)
    PROVE  RequestInv'
  <1> DEFINE t == [Fresh EXCEPT !.pc = "save", !.lang = recipe.lang,
                                !.into = l, !.flag = confirm]
  <1>1. /\ recipe.lang \in Languages /\ Fresh \in Job
    BY TypedParts, ValuesTyped DEF RequestInv
  <1>2. /\ t \in Job /\ t.pc = "save" /\ t.lang = recipe.lang /\ t.into = l
        /\ t.flag = confirm
    BY <1>1 DEF Job
  <1>3. /\ job' = [job EXCEPT ![j] = t] /\ recipe' = recipe
        /\ l # recipe.lang => confirm
    BY DEF SaveRead, Confirmed
  <1> HIDE DEF t
  <1>4. Justified(t)
    BY <1>2, <1>3 DEF Justified
  <1> QED  BY <1>2, <1>3, <1>4, JobJustified

LEMMA CheckStatusJustified ==
    ASSUME RequestInv, RecipeInv', NEW j \in Jobs, CheckStatus(j)
    PROVE  RequestInv'
  <1> DEFINE s == trans[job[j].field][job[j].into].status
             t == [job[j] EXCEPT !.pc = "upsert", !.seen = s]
  <1>1. job[j] \in Job
    BY TypedParts DEF RequestInv
  <1>2. s \in {"absent", "machine", "reviewed", "stale"}
    BY <1>1, TypedParts DEF RequestInv, Job, Translation
  <1>3. /\ job' = [job EXCEPT ![j] = t] /\ recipe' = recipe
        /\ s = "reviewed" => job[j].flag
    BY DEF CheckStatus, Replaceable
  <1> HIDE DEF s
  <1>4. t \in Job /\ t.pc = "upsert" /\ t.seen = s /\ t.flag = job[j].flag
    BY <1>1, <1>2 DEF Job
  <1> HIDE DEF t
  <1>5. Justified(t)
    BY <1>3, <1>4 DEF Justified
  <1> QED  BY <1>3, <1>4, <1>5, JobJustified

\* The steps that bring a job to a statement at which nothing is claimed.
LEMMA OtherJobsJustified ==
    ASSUME RequestInv, RecipeInv', NEW j \in Jobs,
           \/ DeleteCheck(j) \/ DeleteTranslations(j) \/ DeleteRecipe(j) \/ DeleteAborts(j)
           \/ \E e \in Entities : LoadRecipe(j, e) \/ Author(j, e)
           \/ Translate(j) \/ HashSource(j) \/ Derive(j) \/ Upsert(j)
    PROVE  RequestInv'
  <1>1. job[j] \in Job /\ Fresh \in Job /\ Ended.pc = "done" /\ job \in [Jobs -> Job]
    BY TypedParts, ValuesTyped DEF RequestInv
  <1>2. recipe'.lang = recipe.lang
    BY TypedParts DEF RequestInv, DeleteCheck, DeleteTranslations, DeleteRecipe, DeleteAborts,
       LoadRecipe, Author, Translate, HashSource, Derive, Upsert
  <1>3. /\ \A i \in Jobs : i # j => job'[i] = job[i]
        /\ job'[j].pc \notin {"save", "upsert"}
    <2>1. CASE DeleteCheck(j) \/ DeleteTranslations(j)
      BY <1>1, <2>1 DEF DeleteCheck, DeleteTranslations, Step, Job
    <2>2. CASE DeleteRecipe(j) \/ DeleteAborts(j) \/ Upsert(j)
      BY <1>1, <2>2 DEF DeleteRecipe, DeleteAborts, Upsert, Finish, Job
    <2>3. CASE \E e \in Entities : LoadRecipe(j, e)
      <3>1. PICK e \in Entities, replace \in BOOLEAN :
               job' = [job EXCEPT ![j] = [Fresh EXCEPT !.pc = "load", !.field = e,
                                            !.lang = recipe.lang, !.flag = replace]]
        BY <2>3 DEF LoadRecipe
      <3>2. [Fresh EXCEPT !.pc = "load", !.field = e, !.lang = recipe.lang,
                          !.flag = replace].pc = "load"
        BY <1>1 DEF Job
      <3> QED  BY <1>1, <3>1, <3>2
    <2>4. CASE \E e \in Entities : Author(j, e)
      <3>1. PICK e \in Entities, force \in BOOLEAN :
               job' = [job EXCEPT ![j] = [Fresh EXCEPT !.pc = "write", !.kind = "manual",
                          !.field = e, !.of = text[recipe.lang][e], !.in = Other(recipe.lang),
                          !.into = Other(recipe.lang), !.flag = force]]
        BY <2>4 DEF Author
      <3>2. [Fresh EXCEPT !.pc = "write", !.kind = "manual", !.field = e,
                          !.of = text[recipe.lang][e], !.in = Other(recipe.lang),
                          !.into = Other(recipe.lang), !.flag = force].pc = "write"
        BY <1>1 DEF Job
      <3> QED  BY <1>1, <3>1, <3>2
    <2>5. CASE Translate(j)
      <3>1. PICK x, l : job' = [job EXCEPT ![j] = [@ EXCEPT !.pc = "write", !.of = x, !.in = l]]
        BY <2>5, Zenon DEF Translate
      <3>2. job' = [job EXCEPT ![j] = [job[j] EXCEPT !.pc = "write", !.of = x, !.in = l]]
        BY <3>1
      <3>3. [job[j] EXCEPT !.pc = "write", !.of = x, !.in = l].pc = "write"
        BY <1>1 DEF Job
      <3> QED  BY <1>1, <3>2, <3>3
    <2>6. CASE HashSource(j)
      <3>1. PICK x : job' = [job EXCEPT ![j] = [@ EXCEPT !.pc = "direction", !.hash = x]]
        BY <2>6, Zenon DEF HashSource
      <3>2. job' = [job EXCEPT ![j] = [job[j] EXCEPT !.pc = "direction", !.hash = x]]
        BY <3>1
      <3>3. [job[j] EXCEPT !.pc = "direction", !.hash = x].pc = "direction"
        BY <1>1 DEF Job
      <3> QED  BY <1>1, <3>2, <3>3
    <2>7. CASE Derive(j)
      <3>1. PICK x : job' = [job EXCEPT ![j] = [@ EXCEPT !.pc = "check", !.into = x]]
        BY <2>7, Zenon DEF Derive
      <3>2. job' = [job EXCEPT ![j] = [job[j] EXCEPT !.pc = "check", !.into = x]]
        BY <3>1
      <3>3. [job[j] EXCEPT !.pc = "check", !.into = x].pc = "check"
        BY <1>1 DEF Job
      <3> QED  BY <1>1, <3>2, <3>3
    <2> QED  BY <2>1, <2>2, <2>3, <2>4, <2>5, <2>6, <2>7
  <1>4. \A i \in Jobs : Justified(job[i])'
    BY <1>2, <1>3 DEF RequestInv, Justified
  <1> QED  BY <1>4 DEF RequestInv

LEMMA SaveWriteJustified ==
    ASSUME RequestInv, RecipeInv', NEW j \in Jobs, NEW input \in Inputs,
           NEW ids \in [DOMAIN input -> Entities], SaveWrite(j, input, ids)
    PROVE  RequestInv'
  <1>1. /\ job' = [Overlapped EXCEPT ![j] = Ended] /\ Ended.pc = "done"
        /\ \A i \in Jobs : job[i] \in Job
    BY TypedParts, ValuesTyped DEF SaveWrite, RequestInv
  <1>2. ASSUME NEW i \in Jobs, i # j, job[i].pc \in {"save", "upsert"}
        PROVE  job'[i] = [job[i] EXCEPT !.alone = FALSE]
    BY <1>1, <1>2 DEF Overlapped
  <1>3. ASSUME NEW i \in Jobs
        PROVE  Justified(job[i])'
    <2>1. CASE i = j
      BY <1>1, <2>1 DEF Overlapped, Justified
    <2>2. CASE i # j /\ job[i].pc \in {"save", "upsert"}
      <3>1. job'[i] = [job[i] EXCEPT !.alone = FALSE]
        BY <1>2, <2>2
      <3>2. /\ ~job'[i].alone /\ job'[i].pc = job[i].pc /\ job'[i].flag = job[i].flag
            /\ job'[i].into = job[i].into /\ job'[i].lang = job[i].lang
            /\ job'[i].seen = job[i].seen
        BY <1>1, <3>1 DEF Job
      <3> QED  BY <3>2 DEF RequestInv, Justified
    <2>3. CASE i # j /\ job[i].pc \notin {"save", "upsert"}
      <3>1. job'[i].pc = job[i].pc
        BY <1>1, <2>3 DEF Overlapped, Job
      <3> QED  BY <2>3, <3>1 DEF Justified
    <2> QED  BY <2>1, <2>2, <2>3
  <1> QED  BY <1>3 DEF RequestInv

LEMMA RequestInvNext ==
    ASSUME RequestInv, [RecipeNext]_recipeVars
    PROVE  RequestInv'
  <1>0. RecipeInv'
    BY RecipeInvNext DEF RequestInv
  <1>1. ASSUME NEW j \in Jobs, NEW l \in Languages, NEW confirm \in BOOLEAN,
               SaveRead(j, l, confirm)
        PROVE  RequestInv'
    BY <1>0, <1>1, SaveReadJustified
  <1>2. ASSUME NEW j \in Jobs, NEW input \in Inputs, NEW ids \in [DOMAIN input -> Entities],
               SaveWrite(j, input, ids)
        PROVE  RequestInv'
    BY <1>0, <1>2, SaveWriteJustified
  <1>3. ASSUME NEW j \in Jobs, CheckStatus(j)
        PROVE  RequestInv'
    BY <1>0, <1>3, CheckStatusJustified
  <1>4. ASSUME NEW l \in Languages, NEW input \in Inputs,
               NEW ids \in [DOMAIN input -> Entities], CreateRecipe(l, input, ids)
        PROVE  RequestInv'
    <2>1. job' = job /\ \A j \in Jobs : job[j].pc = "new"
      BY <1>4 DEF CreateRecipe, RequestInv, RecipeInv
    <2> QED  BY <1>0, <2>1 DEF RequestInv, Justified
  <1>5. CASE (\E s \in {"archived", "live"} : SetArchived(s)) \/ UNCHANGED recipeVars
             \/ \E e \in Entities, l \in Languages : MarkReviewed(e, l)
    <2>1. job' = job /\ recipe'.lang = recipe.lang
      BY <1>5, TypedParts DEF SetArchived, MarkReviewed, recipeVars, RequestInv
    <2> QED  BY <1>0, <2>1 DEF RequestInv, Justified
  <1>6. ASSUME NEW j \in Jobs,
               \/ DeleteCheck(j) \/ DeleteTranslations(j) \/ DeleteRecipe(j) \/ DeleteAborts(j)
               \/ \E e \in Entities : LoadRecipe(j, e) \/ Author(j, e)
               \/ Translate(j) \/ HashSource(j) \/ Derive(j) \/ Upsert(j)
        PROVE  RequestInv'
    BY <1>0, <1>6, OtherJobsJustified
  <1> QED  BY <1>1, <1>2, <1>3, <1>4, <1>5, <1>6 DEF RecipeNext

(* A save under way is confirmed when it asks for another language, and a    *)
(* writer about to replace a reviewed translation was told to.               *)
THEOREM RequestInvariant == RecipeSpec => []RequestInv
  <1>1. RecipeInit => RequestInv
    BY RecipeInvInit, ValuesTyped DEF RecipeInit, RequestInv, Justified
  <1> QED  BY <1>1, RequestInvNext, PTL DEF RecipeSpec

\* Only a save changes the language of a recipe that is there.
LEMMA LanguageStep ==
    ASSUME RequestInv, [RecipeNext]_recipeVars, Exists, recipe'.lang # recipe.lang
    PROVE  \E j \in Jobs : /\ job[j].pc = "save" /\ job'[j].pc = "done"
                           /\ job[j].flag \/ ~job[j].alone
  <1>0. /\ recipe \in [status : {"absent", "live", "archived", "deleted"}, lang : Languages]
        /\ recipe.status # "absent" /\ job \in [Jobs -> Job]
    BY TypedParts DEF RequestInv, Exists
  <1>1. ~ \E l \in Languages, input \in Inputs :
             \E ids \in [DOMAIN input -> Entities] : CreateRecipe(l, input, ids)
    BY <1>0 DEF CreateRecipe
  <1>2. ~ \E s \in {"archived", "live"} : SetArchived(s)
    BY <1>0 DEF SetArchived
  <1>3. ~(UNCHANGED recipe)
    OBVIOUS
  <1>4. ~ \E j \in Jobs : DeleteRecipe(j)
    BY <1>0 DEF DeleteRecipe
  <1>12. RecipeNext
    BY <1>3 DEF recipeVars
  <1>10. ~ \E e \in Entities, l \in Languages : MarkReviewed(e, l)
    BY <1>3 DEF MarkReviewed
  <1>11. ASSUME NEW j \in Jobs
         PROVE  /\ ~ \E l \in Languages, confirm \in BOOLEAN : SaveRead(j, l, confirm)
                /\ ~DeleteCheck(j) /\ ~DeleteTranslations(j) /\ ~DeleteAborts(j)
                /\ ~ \E e \in Entities : LoadRecipe(j, e) \/ Author(j, e)
                /\ ~Translate(j) /\ ~HashSource(j) /\ ~Derive(j)
                /\ ~CheckStatus(j) /\ ~Upsert(j)
    BY <1>3 DEF SaveRead, DeleteCheck, DeleteTranslations, DeleteAborts, LoadRecipe, Author,
       Translate, HashSource, Derive, CheckStatus, Upsert
  <1>13. PICK j \in Jobs, input \in Inputs :
            \E ids \in [DOMAIN input -> Entities] : SaveWrite(j, input, ids)
    BY <1>1, <1>2, <1>4, <1>10, <1>11, <1>12 DEF RecipeNext
  <1>5. PICK ids \in [DOMAIN input -> Entities] : SaveWrite(j, input, ids)
    BY <1>13
  <1>6. /\ job[j].pc = "save" /\ job' = [Overlapped EXCEPT ![j] = Ended]
        /\ recipe'.lang = job[j].into
    BY <1>5 DEF SaveWrite
  <1>7. job'[j].pc = "done"
    BY <1>6, ValuesTyped DEF Overlapped
  <1>8. job[j].flag \/ ~job[j].alone
    BY <1>0, <1>6 DEF RequestInv, Justified, Job
  <1> QED  BY <1>6, <1>7, <1>8

(* The language of a recipe changes only in a save that was confirmed, or    *)
(* one that another save overtook after it had read the language; for any    *)
(* number of saves at once.                                                  *)
THEOREM LanguageChangesConfirmed == RecipeSpec => LanguageChangeIsConfirmed
  <1>1. RequestInv /\ [RecipeNext]_recipeVars =>
           [Exists /\ recipe'.lang # recipe.lang =>
               \E j \in Jobs : /\ job[j].pc = "save" /\ job'[j].pc = "done"
                               /\ job[j].flag \/ ~job[j].alone]_recipeVars
    BY LanguageStep
  <1> QED  BY <1>1, RequestInvariant, PTL DEF RecipeSpec, LanguageChangeIsConfirmed

\* What a step may make of a reviewed translation without being asked.
MarkedAs(t, u) == \E s \in {"reviewed", "stale"}, p \in {"none", "doomed", "late"} :
                     u = [t EXCEPT !.status = s, !.purge = p]

LEMMA MarkingKeeps ==
    ASSUME NEW t \in Translation, t.status = "reviewed"
    PROVE  /\ MarkedAs(t, t) /\ MarkedAs(t, [t EXCEPT !.status = "stale"])
           /\ \A p \in {"none", "doomed", "late"} : MarkedAs(t, [t EXCEPT !.purge = p])
  <1>1. t.purge \in {"none", "doomed", "late"}
    BY DEF Translation
  <1>2. t = [t EXCEPT !.status = "reviewed", !.purge = t.purge]
    BY DEF Translation
  <1>3. [t EXCEPT !.status = "stale"] = [t EXCEPT !.status = "stale", !.purge = t.purge]
    BY DEF Translation
  <1>4. \A p : [t EXCEPT !.purge = p] = [t EXCEPT !.status = "reviewed", !.purge = p]
    BY DEF Translation
  <1>5. \A s \in {"reviewed", "stale"}, p \in {"none", "doomed", "late"} :
           MarkedAs(t, [t EXCEPT !.status = s, !.purge = p])
    BY DEF MarkedAs
  <1>6. MarkedAs(t, t)
    BY <1>1, <1>2, <1>5, Zenon
  <1>7. MarkedAs(t, [t EXCEPT !.status = "stale"])
    BY <1>1, <1>3, <1>5, Zenon
  <1>8. \A p \in {"none", "doomed", "late"} : MarkedAs(t, [t EXCEPT !.purge = p])
    BY <1>4, <1>5, Zenon
  <1> QED  BY <1>6, <1>7, <1>8

LEMMA ReviewedStep ==
    ASSUME RequestInv, [RecipeNext]_recipeVars, Exists',
           NEW e \in Entities, NEW l \in Languages, trans[e][l].status = "reviewed"
    PROVE  \/ MarkedAs(trans[e][l], trans'[e][l])
           \/ \E j \in Jobs : /\ job[j].pc = "upsert" /\ job'[j].pc = "done"
                              /\ job[j].flag \/ job[j].seen # "reviewed"
  <1>0. /\ trans \in [Entities -> [Languages -> Translation]] /\ trans[e][l] \in Translation
        /\ job \in [Jobs -> Job]
    BY TypedParts DEF RequestInv
  <1>1. ASSUME UNCHANGED trans
        PROVE  MarkedAs(trans[e][l], trans'[e][l])
    BY <1>0, <1>1, MarkingKeeps
  <1>2. ASSUME NEW j \in Jobs, NEW input \in Inputs, NEW ids \in [DOMAIN input -> Entities],
               SaveWrite(j, input, ids)
        PROVE  MarkedAs(trans[e][l], trans'[e][l])
    <2>1. trans'[e][l] = trans[e][l] \/ trans'[e][l] = [trans[e][l] EXCEPT !.status = "stale"]
      BY <1>2 DEF SaveWrite
    <2> QED  BY <1>0, <2>1, MarkingKeeps
  <1>3. ASSUME NEW j \in Jobs, DeleteTranslations(j) \/ DeleteAborts(j)
        PROVE  MarkedAs(trans[e][l], trans'[e][l])
    <2>1. \/ trans'[e][l] = trans[e][l]
          \/ trans'[e][l] = [trans[e][l] EXCEPT !.purge = "doomed"]
          \/ trans'[e][l] = [trans[e][l] EXCEPT !.purge = "none"]
      BY <1>3, SMTT(30) DEF DeleteTranslations, DeleteAborts
    <2> QED  BY <1>0, <2>1, MarkingKeeps
  <1>4. ASSUME NEW j \in Jobs, DeleteRecipe(j)
        PROVE  FALSE
    <2>1. recipe'.status = "deleted"
      BY <1>4, TypedParts DEF DeleteRecipe, RequestInv
    <2> QED  BY <2>1 DEF Exists
  <1>5. ASSUME NEW x \in Entities, NEW m \in Languages, MarkReviewed(x, m)
        PROVE  MarkedAs(trans[e][l], trans'[e][l])
    <2>1. x # e \/ m # l
      BY <1>5 DEF MarkReviewed
    <2>2. trans' = [trans EXCEPT ![x][m].status = "reviewed"]
      BY <1>5 DEF MarkReviewed
    <2>3. trans'[e][l] = trans[e][l]
      BY <1>0, <2>1, <2>2
    <2> QED  BY <1>0, <2>3, MarkingKeeps
  <1>6. ASSUME NEW j \in Jobs, Upsert(j)
        PROVE  /\ job[j].pc = "upsert" /\ job'[j].pc = "done"
               /\ job[j].flag \/ job[j].seen # "reviewed"
    <2>1. job[j].pc = "upsert" /\ job'[j].pc = "done"
      BY <1>0, <1>6, ValuesTyped DEF Upsert, Finish
    <2> QED  BY <2>1 DEF RequestInv, Justified
  <1>7. ASSUME NEW j \in Jobs,
               \/ \E m \in Languages, confirm \in BOOLEAN : SaveRead(j, m, confirm)
               \/ DeleteCheck(j) \/ \E x \in Entities : LoadRecipe(j, x) \/ Author(j, x)
               \/ Translate(j) \/ HashSource(j) \/ Derive(j) \/ CheckStatus(j)
        PROVE  UNCHANGED trans
    BY <1>7 DEF SaveRead, DeleteCheck, LoadRecipe, Author, Translate, HashSource, Derive,
       CheckStatus
  <1>8. CASE RecipeNext
    <2>1. CASE \/ \E m \in Languages, input \in Inputs :
                     \E ids \in [DOMAIN input -> Entities] : CreateRecipe(m, input, ids)
               \/ \E s \in {"archived", "live"} : SetArchived(s)
      BY <1>1, <2>1 DEF CreateRecipe, SetArchived
    <2>2. CASE \E x \in Entities, m \in Languages : MarkReviewed(x, m)
      BY <1>5, <2>2
    <2>3. CASE \E j \in Jobs : \E input \in Inputs :
                  \E ids \in [DOMAIN input -> Entities] : SaveWrite(j, input, ids)
      BY <1>2, <2>3
    <2>4. CASE \E j \in Jobs : DeleteTranslations(j) \/ DeleteRecipe(j) \/ DeleteAborts(j)
      BY <1>3, <1>4, <2>4
    <2>5. CASE \E j \in Jobs : Upsert(j)
      BY <1>6, <2>5
    <2>6. CASE \E j \in Jobs :
                  \/ \E m \in Languages, confirm \in BOOLEAN : SaveRead(j, m, confirm)
                  \/ DeleteCheck(j) \/ \E x \in Entities : LoadRecipe(j, x) \/ Author(j, x)
                  \/ Translate(j) \/ HashSource(j) \/ Derive(j) \/ CheckStatus(j)
      BY <1>1, <1>7, <2>6
    <2> QED  BY <1>8, <2>1, <2>2, <2>3, <2>4, <2>5, <2>6 DEF RecipeNext
  <1>9. CASE UNCHANGED recipeVars
    BY <1>1, <1>9 DEF recipeVars
  <1> QED  BY <1>8, <1>9

(* A reviewed translation is replaced only on request, or by a writer that   *)
(* had looked at its status before it was reviewed; for any number of        *)
(* writers, saves and deletions at once.                                     *)
THEOREM ReviewedReplacedOnRequest == RecipeSpec => ReviewedIsReplacedOnRequest
  <1> DEFINE Kept(e, l) ==
         \/ \E s \in {"reviewed", "stale"}, p \in {"none", "doomed", "late"} :
               trans'[e][l] = [trans[e][l] EXCEPT !.status = s, !.purge = p]
         \/ \E j \in Jobs : /\ job[j].pc = "upsert" /\ job'[j].pc = "done"
                            /\ job[j].flag \/ job[j].seen # "reviewed"
  <1>1. ASSUME RequestInv, [RecipeNext]_recipeVars, Exists',
               NEW e \in Entities, NEW l \in Languages, trans[e][l].status = "reviewed"
        PROVE  Kept(e, l)
    <2>1. \/ MarkedAs(trans[e][l], trans'[e][l])
          \/ \E j \in Jobs : /\ job[j].pc = "upsert" /\ job'[j].pc = "done"
                             /\ job[j].flag \/ job[j].seen # "reviewed"
      BY <1>1, ReviewedStep
    <2> QED  BY <2>1, Zenon DEF MarkedAs
  <1>2. RequestInv /\ [RecipeNext]_recipeVars =>
           [\A e \in Entities, l \in Languages :
              trans[e][l].status = "reviewed" /\ Exists' => Kept(e, l)]_recipeVars
    <2> HIDE DEF Kept
    <2> QED  BY <1>1
  <1> QED  BY <1>2, RequestInvariant, PTL DEF RecipeSpec, ReviewedIsReplacedOnRequest
=============================================================================
