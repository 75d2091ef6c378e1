-------------------------- MODULE RecipeProperties --------------------------
(* What saving, translating and deleting a recipe must never do. *)
EXTENDS RecipeTranslations

(* Readers are not shown the translation of another text: what is marked as  *)
(* a translation is one of the text as it stands, unless a save was          *)
(* committed while it was being made (the hash that is stored is then that   *)
(* of the new text).                                                         *)
ShownIsCurrent ==
    \A e \in Elements(fields), l \in Languages :
       Marked(e, l) /\ trans[e][l].alone => trans[e][l].of = text[recipe.lang][e]

(* The permanent deletion leaves no translation behind, but those of rows    *)
(* that a save had removed before, and those written while it was deleting.  *)
NothingElseLeftBehind ==
    \A e \in Entities \ Elements(fields), l \in Languages :
       trans[e][l].status # "absent" => e \in dropped \/ trans[e][l].purge = "late"

(* The language of a recipe changes only under a confirmation, or in a save  *)
(* that another save overtook after it had read the language.                *)
LanguageChangeIsConfirmed ==
    [][Exists /\ recipe'.lang # recipe.lang =>
          \E j \in Jobs : /\ job[j].pc = "save" /\ job'[j].pc = "done"
                          /\ job[j].flag \/ ~job[j].alone]_recipeVars

(* A reviewed translation is replaced only on request, or by a writer that   *)
(* had looked at its status before it was reviewed.                          *)
ReviewedIsReplacedOnRequest ==
    [][\A e \in Entities, l \in Languages :
          trans[e][l].status = "reviewed" /\ Exists' =>
             \/ \E s \in {"reviewed", "stale"}, p \in {"none", "doomed", "late"} :
                   trans'[e][l] = [trans[e][l] EXCEPT !.status = s, !.purge = p]
             \/ \E j \in Jobs : /\ job[j].pc = "upsert" /\ job'[j].pc = "done"
                                /\ job[j].flag \/ job[j].seen # "reviewed"]_recipeVars

-----------------------------------------------------------------------------
(* "Direction for this whole batch -- always one recipe's original_language  *)
(* -> the other language" (comment of runContentTranslationBatch): what is   *)
(* marked as a translation for the readers of a language is in it.           *)
ShownInReadersLanguage ==
    \A e \in Elements(fields), l \in Languages : Marked(e, l) => trans[e][l].in = l
=============================================================================
