----------------------------- MODULE Achievements -----------------------------
(***************************************************************************)
(* Achievements of sdk/xblsdk.c (xbl_ach_...): the awarded set of one      *)
(* launch, the toast callback, which may award again, and the answers of   *)
(* the server, which grants.  An answer to a report is worked off one      *)
(* toast at a time, and then marks the account's full set silently.        *)
(***************************************************************************)
EXTENDS Integers, FiniteSets, Sequences

CONSTANTS
  Ids,        \* the achievements the game or the server may name
  Defs,       \* the catalog of xbl_ach_init, a sequence of ids
  AchMax      \* XBL_ACH_MAX

ASSUME AchMaxAssumption == AchMax \in Nat
ASSUME DefsAssumption == Defs \in Seq(Ids)

\* The entries that ach_index looks at: xbl_ach_init keeps the first AchMax.
Known == {Defs[i] : i \in {j \in DOMAIN Defs : j <= AchMax}}

VARIABLES
  awarded,    \* g_ach_awarded, by id
  depth,      \* toast callbacks that have not returned
  reporting,  \* the answer of a report is being worked off
  unlocked,   \* ids of its "unlocked" array still to come
  all,        \* its "all" array
  granted,    \* the server: what the account has earned
  toasts,     \* history: toasts[id] since the account signed in
  due,        \* history: ids that an "unlocked" array has brought
  seeded      \* history: ids the server has said were earned already

achVars == <<awarded, depth, reporting, unlocked, all, granted, toasts, due, seeded>>

\* xbl_ach_init, for an account that has earned anything.
AchInit ==
  /\ awarded = {}
  /\ depth = 0
  /\ reporting = FALSE
  /\ unlocked = {}
  /\ all = {}
  /\ granted \in SUBSET Ids
  /\ toasts = [id \in Known |-> 0]
  /\ due = {}
  /\ seeded = {}

\* The thread is not inside the SDK or one of its callbacks.
AchIdle == depth = 0 /\ ~reporting

\* Wrong variant: the flag is not set before the callback.
AwardUnmarked(id) ==
  IF id \in Known \ awarded
  THEN /\ awarded' = awarded
       /\ depth' = depth + 1
       /\ toasts' = [toasts EXCEPT ![id] = @ + 1]
  ELSE UNCHANGED <<awarded, depth, toasts>>

\* xbl_ach_award: the flag, then the toast callback.
Award(id) ==
  IF id \in Known \ awarded
  THEN /\ awarded' = awarded \cup {id}
       /\ depth' = depth + 1
       /\ toasts' = [toasts EXCEPT ![id] = @ + 1]
  ELSE UNCHANGED <<awarded, depth, toasts>>

\* xbl_ach_award, called by the game or by its toast callback.
AchAward(id) ==
  /\ Award(id)
  /\ UNCHANGED <<reporting, unlocked, all, granted, due, seeded>>

\* A toast callback returns.
ToastReturn ==
  /\ depth > 0
  /\ depth' = depth - 1
  /\ UNCHANGED <<awarded, reporting, unlocked, all, granted, toasts, due, seeded>>

\* Wrong variant: nothing is marked.
MarkNone(ids) == awarded

\* ach_mark_silent on each id of an array: unknown ids are ignored.
MarkSilent(ids) == awarded \cup (ids \cap Known)

\* xbl_ach_sync that is answered: what is unlocked is marked silently.
AchSync ==
  /\ AchIdle
  /\ awarded' = MarkSilent(granted)
  /\ seeded' = seeded \cup granted
  /\ UNCHANGED <<depth, reporting, unlocked, all, granted, toasts, due>>

\* The server works on a report that earns `earned`.
Grant(earned) == granted' = granted \cup earned

\* Wrong variant: the full set is marked before the toasts.
AnswerMarksFirst(earned) ==
  /\ awarded' = MarkSilent(granted')
  /\ unlocked' = earned \ granted
  /\ all' = granted'
  /\ due' = due \cup (earned \ granted)
  /\ reporting' = TRUE

\* Its answer: what this report unlocked, and all that is unlocked.
Answer(earned) ==
  /\ awarded' = awarded
  /\ unlocked' = earned \ granted
  /\ all' = granted'
  /\ due' = due \cup (earned \ granted)
  /\ reporting' = TRUE

\* xbl_ach_report: the request or its answer is lost, or the answer is here.
AchReport(earned) ==
  /\ AchIdle
  /\ Grant(earned)
  /\ \/ Answer(earned)
     \/ UNCHANGED <<awarded, unlocked, all, due, reporting>>
  /\ UNCHANGED <<depth, toasts, seeded>>

\* ach_toast_unlocked, the next id of the array.
ToastUnlocked(id) ==
  /\ reporting
  /\ depth = 0
  /\ id \in unlocked
  /\ unlocked' = unlocked \ {id}
  /\ Award(id)
  /\ UNCHANGED <<reporting, all, granted, due, seeded>>

\* ach_mark_all_silent, and xbl_ach_report returns.
MarkAll ==
  /\ reporting
  /\ depth = 0
  /\ unlocked = {}
  /\ awarded' = MarkSilent(all)
  /\ seeded' = seeded \cup all
  /\ reporting' = FALSE
  /\ all' = {}
  /\ UNCHANGED <<depth, unlocked, granted, toasts, due>>

\* The same account earns something on another console.
GrantElsewhere(id) ==
  /\ granted' = granted \cup {id}
  /\ UNCHANGED <<awarded, depth, reporting, unlocked, all, toasts, due, seeded>>

\* xbl_ach_reset, for another account that has earned anything.
AchReset ==
  /\ AchIdle
  /\ awarded' = {}
  /\ granted' \in SUBSET Ids
  /\ toasts' = [id \in Known |-> 0]
  /\ due' = {}
  /\ seeded' = {}
  /\ UNCHANGED <<depth, reporting, unlocked, all>>

-----------------------------------------------------------------------------
(* Correctness *)

\* Nested callbacks end: each marks another entry of the catalog.
AchTypeOK ==
  /\ awarded \subseteq Known
  /\ depth \in 0 .. Cardinality(Known)
  /\ reporting \in BOOLEAN
  /\ unlocked \subseteq Ids
  /\ all \subseteq Ids
  /\ granted \subseteq Ids
  /\ toasts \in [Known -> Nat]
  /\ due \subseteq Ids
  /\ seeded \subseteq granted

\* "fires the toast ONCE" (xblsdk.h 533), with callbacks that award, reports
\* that bring what was awarded live, and syncs that fail.
ToastedOnce == \A id \in Known : toasts[id] <= 1

\* What a report unlocks is shown, unless it was shown live (xblsdk.h 583): the
\* toasts go before the silent marks of the same answer.
UnlocksAreShown == \A id \in (due \cap Known) \ unlocked : toasts[id] >= 1

\* The entries that are awarded were toasted, or the server said they were
\* earned before: xbl_ach_was_awarded invents nothing.
AwardedIsEarned == \A id \in awarded : toasts[id] > 0 \/ id \in seeded

\* What the server has once said was earned never toasts again, until another
\* account signs in (xblsdk.h 531).
EarnedStaysSilent ==
  [][\A id \in Known \cap seeded \cap seeded' : toasts'[id] = toasts[id]]_achVars
=============================================================================
