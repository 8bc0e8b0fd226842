------------------------------ MODULE Autosave ------------------------------
(***************************************************************************)
(* The draft in the storage of the browser (src/src/stores/dashboard/      *)
(* autosave.ts, stores/dashboard.store.ts): written half a second after    *)
(* the last edit, and at once when the tab is hidden or unloaded; read     *)
(* when the tab starts.  A draft is the dashboard and the selection; two   *)
(* are the same when they are the same object, which an undo brings back.  *)
(***************************************************************************)
CONSTANT Drafts        \* bound: the drafts the user makes

VARIABLES
  kept,                \* the draft in the store, or NoDraft
  autosaved,           \* what the storage holds, or NoDraft
  debounce,            \* the timer is armed
  lastWritten,
  refused              \* history: the storage refused the last write

autosaveVars == <<kept, autosaved, debounce, lastWritten, refused>>

NoDraft == "none"

AutosaveInit ==
  /\ autosaved \in Drafts \cup {NoDraft}
  /\ kept = autosaved
  /\ debounce = FALSE /\ lastWritten = NoDraft /\ refused = FALSE

-----------------------------------------------------------------------------
\* write(): the storage may be full.  What it took is not written twice.
written ==
  \/ /\ kept \notin {lastWritten, NoDraft}
     /\ autosaved' = kept /\ lastWritten' = kept /\ refused' = FALSE
  \/ /\ kept \notin {lastWritten, NoDraft}
     /\ refused' = TRUE
     /\ UNCHANGED <<autosaved, lastWritten>>
  \/ /\ kept \in {lastWritten, NoDraft}
     /\ UNCHANGED <<autosaved, lastWritten, refused>>

\* Faulted editDraft: a draft counts as written when its write is scheduled.
editDraftAsWritten(draft) ==
  /\ draft # kept /\ kept' = draft
  /\ debounce' = (debounce \/ draft # lastWritten)
  /\ lastWritten' = draft
  /\ UNCHANGED <<autosaved, refused>>

\* The subscription: schedule() arms the timer anew, but for what is written already.
editDraft(draft) ==
  /\ draft # kept /\ kept' = draft
  /\ debounce' = (debounce \/ draft # lastWritten)
  /\ UNCHANGED <<autosaved, lastWritten, refused>>

debounceEnds ==
  /\ debounce /\ debounce' = FALSE
  /\ written
  /\ UNCHANGED kept

\* visibilitychange
hide ==
  /\ debounce' = FALSE
  /\ written
  /\ UNCHANGED kept

\* The tab starts with what the storage holds.  beforeunload flushes, if the storage
\* takes it; a tab that is killed does not.
starts(held) ==
  /\ autosaved' = held /\ kept' = held
  /\ debounce' = FALSE /\ lastWritten' = NoDraft /\ refused' = FALSE

unload == starts(kept) \/ starts(autosaved)

AutosaveNext ==
  \/ \E draft \in Drafts : editDraft(draft)
  \/ debounceEnds \/ hide \/ unload

AutosaveSpec == AutosaveInit /\ [][AutosaveNext]_autosaveVars

-----------------------------------------------------------------------------
\* With no write to come and none refused, the storage holds the draft: what a
\* killed tab loses is the edits of the last half second.
SavedUnlessPending ==
  ~debounce /\ ~refused /\ kept # NoDraft => autosaved = kept
=============================================================================
