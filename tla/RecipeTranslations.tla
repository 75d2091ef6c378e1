------------------------- MODULE RecipeTranslations -------------------------
(***************************************************************************)
(* One recipe, its translatable fields and the translations of them: the   *)
(* save, the archive and the permanent deletion of the recipe, the machine *)
(* translations of the generator script, and the ones a manager writes.    *)
(*                                                                         *)
(* A plpgsql function takes a new snapshot with every statement and there  *)
(* is no lock before its first write, so each statement is a step.  A save *)
(* holds the row of the recipe from its first write to its commit, and is  *)
(* one step from there on.                                                 *)
(*                                                                         *)
(* A field is a row: the recipe itself (Title) or one of its ingredients,  *)
(* steps or notes.  A hash is the text that was hashed.                    *)
(***************************************************************************)
EXTENDS Naturals, Sequences

CONSTANTS
    Title, Lines,               \* the ids of the rows; an id is used once
    Texts, NoText,
    MaxFields,                  \* bound: fields of the recipe, Title included
    Jobs                        \* bound: operations that take several steps

ASSUME RecipeValues == Title \notin Lines /\ NoText \notin Texts /\ MaxFields \in Nat

VARIABLES
    recipe,     \* [status, lang]: the workforce.recipes row; live is draft or
                \* published
    fields,     \* the rows in their order, Title first
    text,       \* text[l][e]: the column of language l of row e
    trans,      \* trans[e][l]: the content.translations row of e into l
    job,        \* job[j]: an operation under way
    dropped     \* history: the rows that a save has removed

recipeVars == <<recipe, fields, text, trans, job, dropped>>

Entities == Lines \cup {Title}
Languages == {"ja", "en"}
Other(l) == IF l = "ja" THEN "en" ELSE "ja"
Elements(s) == {s[i] : i \in DOMAIN s}
Inputs == UNION {[1..n -> Texts] : n \in 1..MaxFields}

\* of and in: what was translated, and the language the result is in.
\* alone (history): no save was committed while the translation was made.
\* purge: "doomed" is a row that a deletion under way has deleted, "late" (history)
\* one that was written after a deletion had done so.
Translation == [status : {"absent", "machine", "reviewed", "stale"},
                of : Texts \cup {NoText}, in : Languages,
                hash : Texts \cup {NoText}, alone : BOOLEAN,
                purge : {"none", "doomed", "late"}]

NoTranslation == [status |-> "absent", of |-> NoText, in |-> "en", hash |-> NoText,
                  alone |-> TRUE, purge |-> "none"]

\* lang: the language that was read; into: the one that is asked for or derived.
\* flag: replace_reviewed, force or confirm_language_change.
\* seen: the status that was checked.
Job == [pc : {"new", "load", "write", "direction", "check", "upsert",
              "save", "delete", "purged", "done"},
        kind : {"machine", "manual"}, field : Entities, lang : Languages,
        into : Languages, of : Texts \cup {NoText}, hash : Texts \cup {NoText},
        in : Languages, flag : BOOLEAN, seen : {"absent", "machine", "reviewed", "stale"},
        alone : BOOLEAN]

Fresh == [pc |-> "new", kind |-> "machine", field |-> Title, lang |-> "ja", into |-> "en",
          of |-> NoText, hash |-> NoText, in |-> "en", flag |-> FALSE, seen |-> "absent",
          alone |-> TRUE]

RecipeTypes ==
    /\ recipe \in [status : {"absent", "live", "archived", "deleted"},
                   lang : Languages]
    /\ fields \in Seq(Entities)
    /\ text \in [Languages -> [Entities -> Texts \cup {NoText}]]
    /\ trans \in [Entities -> [Languages -> Translation]]
    /\ job \in [Jobs -> Job]
    /\ dropped \subseteq Entities

RecipeInit ==
    /\ recipe = [status |-> "absent", lang |-> "ja"]
    /\ fields = <<>>
    /\ text = [l \in Languages |-> [e \in Entities |-> NoText]]
    /\ trans = [e \in Entities |-> [l \in Languages |-> NoTranslation]]
    /\ job = [j \in Jobs |-> Fresh]
    /\ dropped = {}

Exists == recipe.status \in {"live", "archived"}
Ended == [Fresh EXCEPT !.pc = "done"]
Step(j, from, to) == job[j].pc = from /\ job' = [job EXCEPT ![j].pc = to]
Finish(j, from) == job[j].pc = from /\ job' = [job EXCEPT ![j] = Ended]

-----------------------------------------------------------------------------
(* What a reader sees. *)

StatusIsStale(t, source) == t.status = "stale"     \* mutant: the mark is trusted

\* isTranslationStale compares hashes only, never the status of the row.
IsStale(t, source) == t.hash # source

\* resolveFieldDisplay: the text comes from the translation and is marked so.
Marked(e, l) == LET t == trans[e][l] IN
    /\ l # recipe.lang /\ t.status # "absent"
    /\ ~IsStale(t, text[recipe.lang][e])

-----------------------------------------------------------------------------
(* api.upsert_workforce_recipe. *)

\* Row i keeps its id and takes text i; further texts get rows of their own,
\* and the rows that are left over are deleted.
Place(ids, input, l) ==
    /\ DOMAIN ids = DOMAIN input
    /\ \A i \in DOMAIN ids : IF i <= Len(fields) THEN ids[i] = fields[i] ELSE ids[i] \notin Elements(fields) \cup dropped
    /\ \A i, k \in DOMAIN ids : ids[i] = ids[k] => i = k
    /\ fields' = ids
    /\ text' = [m \in Languages |-> [e \in Entities |->
                   IF e \notin Elements(ids) THEN NoText
                   ELSE IF m = l THEN input[CHOOSE i \in DOMAIN ids : ids[i] = e]
                   ELSE text[m][e]]]
    /\ dropped' = dropped \cup (Elements(fields) \ Elements(ids))

Overlapped == [j \in Jobs |-> IF job[j].pc \in {"new", "done"} THEN job[j]
                               ELSE [job[j] EXCEPT !.alone = FALSE]]

\* A new recipe; in any language.
CreateRecipe(l, input, ids) ==
    /\ recipe.status = "absent"
    /\ ids[1] = Title
    /\ recipe' = [status |-> "live", lang |-> l]
    /\ Place(ids, input, l)
    /\ UNCHANGED <<trans, job>>

AnyLanguage(l, confirm) == TRUE         \* mutant: no confirmation is asked for

Confirmed(l, confirm) == l # recipe.lang => confirm

\* Reads the language, without a lock, and refuses an unconfirmed change of it.
SaveRead(j, l, confirm) ==
    /\ Exists
    /\ job[j].pc = "new"
    /\ Confirmed(l, confirm)
    /\ job' = [job EXCEPT ![j] = [Fresh EXCEPT !.pc = "save", !.lang = recipe.lang,
                                               !.into = l, !.flag = confirm]]
    /\ UNCHANGED <<recipe, fields, text, trans, dropped>>

\* The rows and, when the save read another language, their translations.
SaveWrite(j, input, ids) ==
    LET l == job[j].into IN
    /\ Exists
    /\ job[j].pc = "save"
    /\ recipe' = [status |-> "live", lang |-> l]
    /\ Place(ids, input, l)
    /\ trans' = [e \in Entities |-> [m \in Languages |->
                    IF /\ job[j].lang # l /\ e \in Elements(ids)
                       /\ trans[e][m].status # "absent"
                    THEN [trans[e][m] EXCEPT !.status = "stale"] ELSE trans[e][m]]]
    /\ job' = [Overlapped EXCEPT ![j] = Ended]

\* setWorkforceRecipeArchived: restoring makes a draft.
SetArchived(s) ==
    /\ Exists
    /\ recipe' = [recipe EXCEPT !.status = s]
    /\ UNCHANGED <<fields, text, trans, job, dropped>>

-----------------------------------------------------------------------------
(* workforce.permanently_delete_recipe: check, translations, recipe. *)

DeleteCheck(j) ==
    /\ recipe.status = "archived"
    /\ Step(j, "new", "delete")
    /\ UNCHANGED <<recipe, fields, text, trans, dropped>>

Purging == \E j \in Jobs : job[j].pc = "purged"

TitleOnly(e) == e = Title               \* mutant: the lines are forgotten

Doomed(e) == e \in Elements(fields)

\* The translations of the rows there are now, deleted when this commits.  A
\* second deletion waits for the first, whose rows it would delete.
DeleteTranslations(j) ==
    /\ ~Purging
    /\ Step(j, "delete", "purged")
    /\ trans' = [e \in Entities |-> [l \in Languages |->
                    IF Doomed(e) /\ trans[e][l].status # "absent"
                    THEN [trans[e][l] EXCEPT !.purge = "doomed"] ELSE trans[e][l]]]
    /\ UNCHANGED <<recipe, fields, text, dropped>>

\* Whatever the status of the recipe is by now; the rows cascade.
DeleteRecipe(j) ==
    /\ Finish(j, "purged")
    /\ recipe' = [recipe EXCEPT !.status = "deleted"]
    /\ fields' = <<>>
    /\ text' = [l \in Languages |-> [e \in Entities |-> NoText]]
    /\ trans' = [e \in Entities |-> [l \in Languages |->
                    IF trans[e][l].purge = "doomed" THEN NoTranslation ELSE trans[e][l]]]
    /\ UNCHANGED dropped

DeleteAborts(j) ==
    /\ Finish(j, "purged")
    /\ trans' = [e \in Entities |-> [l \in Languages |->
                    IF trans[e][l].purge = "doomed"
                    THEN [trans[e][l] EXCEPT !.purge = "none"] ELSE trans[e][l]]]
    /\ UNCHANGED <<recipe, fields, text, dropped>>

-----------------------------------------------------------------------------
(* Translating a field.  A job that is refused, fails or dies just stops. *)

\* The generator reads the recipe, which says what is the source ...
LoadRecipe(j, e) ==
    /\ job[j].pc = "new"
    /\ e \in Elements(fields)
    /\ \E replace \in BOOLEAN :
          job' = [job EXCEPT ![j] = [Fresh EXCEPT !.pc = "load", !.field = e,
                                       !.lang = recipe.lang, !.flag = replace]]
    /\ UNCHANGED <<recipe, fields, text, trans, dropped>>

\* runContentTranslationBatch: fields without text, reviewed ones and current
\* ones are left out.
Wanted(t, source, replace) ==
    /\ source # NoText
    /\ t.status # "absent" => IsStale(t, source)
    /\ t.status = "reviewed" => replace

\* The direction the generator gives the batch: none, so the default.
Direction(l) == <<"ja", "en">>

\* ... then its rows and their translations, and sends the text to the provider.
Translate(j) ==
    LET e == job[j].field
        source == text[job[j].lang][e] IN
    /\ job[j].pc = "load"
    /\ Wanted(trans[e][Other(job[j].lang)], source, job[j].flag)
    /\ job' = [job EXCEPT ![j] = [@ EXCEPT !.pc = "write", !.of = source,
                                           !.in = Direction(job[j].lang)[2]]]
    /\ UNCHANGED <<recipe, fields, text, trans, dropped>>

\* setContentTranslation: a manager writes the translation of what is there.
Author(j, e) ==
    /\ job[j].pc = "new"
    /\ e \in Elements(fields)
    /\ text[recipe.lang][e] # NoText
    /\ \E force \in BOOLEAN :
          job' = [job EXCEPT ![j] = [Fresh EXCEPT !.pc = "write", !.kind = "manual",
                      !.field = e, !.of = text[recipe.lang][e], !.in = Other(recipe.lang),
                      !.into = Other(recipe.lang), !.flag = force]]
    /\ UNCHANGED <<recipe, fields, text, trans, dropped>>

\* translation_source_text: the hash is of the text as it is now.
HashSource(j) ==
    /\ job[j].pc = "write"
    /\ text[recipe.lang][job[j].field] # NoText
    /\ job' = [job EXCEPT ![j] = [@ EXCEPT !.pc = "direction",
                                           !.hash = text[recipe.lang][job[j].field]]]
    /\ UNCHANGED <<recipe, fields, text, trans, dropped>>

\* recipe_original_language: 'ja' when the row is gone.  A manager names the target.
Derive(j) ==
    LET l == IF job[j].field \in Elements(fields) THEN recipe.lang ELSE "ja" IN
    /\ job[j].pc = "direction"
    /\ job' = [job EXCEPT ![j] = [@ EXCEPT !.pc = "check",
                  !.into = IF job[j].kind = "manual" THEN job[j].into ELSE Other(l)]]
    /\ UNCHANGED <<recipe, fields, text, trans, dropped>>

AlwaysReplaceable(status, flag) == TRUE \* mutant: the refusal is forgotten

\* Refuses to replace a reviewed translation, unless told to.
Replaceable(status, flag) == status = "reviewed" => flag

CheckStatus(j) ==
    LET status == trans[job[j].field][job[j].into].status IN
    /\ job[j].pc = "check"
    /\ Replaceable(status, job[j].flag)
    /\ job' = [job EXCEPT ![j] = [@ EXCEPT !.pc = "upsert", !.seen = status]]
    /\ UNCHANGED <<recipe, fields, text, trans, dropped>>

\* The policy asks for the source row; the conflict clause asks for nothing.
Upsert(j) ==
    /\ job[j].field \in Elements(fields)
    /\ Finish(j, "upsert")
    /\ trans' = [trans EXCEPT ![job[j].field][job[j].into] =
          [status |-> IF job[j].kind = "manual" THEN "reviewed" ELSE "machine",
           of |-> job[j].of, in |-> job[j].in, hash |-> job[j].hash,
           alone |-> job[j].alone, purge |-> IF Purging THEN "late" ELSE "none"]]
    /\ UNCHANGED <<recipe, fields, text, dropped>>

\* markContentTranslationReviewed
MarkReviewed(e, l) ==
    /\ e \in Elements(fields)
    /\ trans[e][l].status \notin {"absent", "reviewed"}
    /\ trans' = [trans EXCEPT ![e][l].status = "reviewed"]
    /\ UNCHANGED <<recipe, fields, text, job, dropped>>

-----------------------------------------------------------------------------
RecipeNext ==
    \/ \E l \in Languages, input \in Inputs :
          \E ids \in [DOMAIN input -> Entities] : CreateRecipe(l, input, ids)
    \/ \E s \in {"archived", "live"} : SetArchived(s)
    \/ \E e \in Entities, l \in Languages : MarkReviewed(e, l)
    \/ \E j \in Jobs :
          \/ \E l \in Languages, confirm \in BOOLEAN : SaveRead(j, l, confirm)
          \/ \E input \in Inputs :
                \E ids \in [DOMAIN input -> Entities] : SaveWrite(j, input, ids)
          \/ DeleteCheck(j) \/ DeleteTranslations(j) \/ DeleteRecipe(j) \/ DeleteAborts(j)
          \/ \E e \in Entities : LoadRecipe(j, e) \/ Author(j, e)
          \/ Translate(j) \/ HashSource(j) \/ Derive(j) \/ CheckStatus(j) \/ Upsert(j)

RecipeSpec == RecipeInit /\ [][RecipeNext]_recipeVars
=============================================================================
