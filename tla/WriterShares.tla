---------------------------- MODULE WriterShares ----------------------------
(***************************************************************************)
(* The writers of a musical work and the rules their form is checked by    *)
(* before the work is saved (music_publisher: WriterInWork, the formset of *)
(* WorkAdmin and the data import, which runs the same formset).            *)
(*                                                                         *)
(* A line of the form names a writer, or nobody when the writer is not     *)
(* known, with the role, the manuscript share in hundredths of a percent   *)
(* and the mark of the publisher's control.  A writer is a record of what  *)
(* the rules read: general for an agreement over all works, able for the   *)
(* identifiers that control requires.  Lines marked for deletion are left  *)
(* out.                                                                    *)
(***************************************************************************)
EXTENDS Integers, Sequences, FiniteSetsExt, SequencesExt

CONSTANTS
  Unknown,    \* the writer of a line that names nobody
  NoRole      \* a line without a role

OriginalRoles == {"CA", "C ", "A "}
Roles == OriginalRoles \cup {"AR", "AD", "TR"}

Writer == [code : STRING, general : BOOLEAN, able : BOOLEAN]

\* A writer with a general agreement has the data that control requires.
SoundWriter(w) == w.general => w.able

-----------------------------------------------------------------------------
\* WriterInWork.clean: the rules of one line.
SoundLine(l) ==
  IF l.controlled
  THEN l.role # NoRole /\ l.writer # Unknown /\ l.writer.able
  ELSE /\ l.writer # Unknown => ~ l.writer.general
       /\ ~ l.agreement

-----------------------------------------------------------------------------
Lines(form) == Range(form)

\* The sum of a list.
Added(parts) == FoldLeft(LAMBDA sum, n : sum + n, 0, parts)

ManuscriptTotal(form) == Added([i \in DOMAIN form |-> form[i].share])

HasControlled(form) == \E l \in Lines(form) : l.controlled
HasComposer(form)   == \E l \in Lines(form) : l.role \in {"C ", "CA"}

\* The bounds of check_total are binary fractions: 99.98 and 100.02 lie outside.
TotalIsWhole(form) == ManuscriptTotal(form) \in 9999..10001

\* An original work has original roles only, a modification needs another one.
RolesFit(form, modification) ==
  IF modification
  THEN \E l \in Lines(form) : l.role \notin OriginalRoles \cup {NoRole}
  ELSE \A l \in Lines(form) : l.role \in OriginalRoles \cup {NoRole}

\* The role the controlled line of a writer has: of several, the last one counts.
ControlledRole(form, w) ==
  LET at == {i \in DOMAIN form : form[i].controlled /\ form[i].writer = w}
  IN  IF at = {} THEN NoRole ELSE form[Max(at)].role

\* In a modification the uncontrolled lines of a controlled writer share the role.
SameRole(form, modification) ==
  modification =>
    \A l \in Lines(form) :
      (l.writer # Unknown /\ ~ l.controlled /\ ControlledRole(form, l.writer) # NoRole)
        => l.role = ControlledRole(form, l.writer)

\* What WriterInWorkFormSet.clean refuses as a whole; the other errors it notes at a line.
Complete(form, modification) ==
  /\ modification => \E l \in Lines(form) : l.role \notin OriginalRoles \cup {NoRole}
  /\ HasControlled(form)
  /\ HasComposer(form)
  /\ TotalIsWhole(form)

\* WriterInWorkFormSet.clean, with the clean of every line.
Accepted(form, modification) ==
  /\ Len(form) >= 1
  /\ \A l \in Lines(form) : SoundLine(l)
  /\ RolesFit(form, modification)
  /\ HasControlled(form)
  /\ HasComposer(form)
  /\ TotalIsWhole(form)
  /\ SameRole(form, modification)

\* Meta.ordering of the lines of a work: the controlled ones come first.
Saved(form) == SelectSeq(form, LAMBDA l : l.controlled)
            \o SelectSeq(form, LAMBDA l : ~ l.controlled)

=============================================================================
