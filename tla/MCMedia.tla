------------------------------- MODULE MCMedia -------------------------------
(***************************************************************************)
(* Small instances of Media: a document, a note that is uploaded without a *)
(* kind, and a space.  A behaviour makes the requests of one script, each  *)
(* once and in any order.                                                  *)
(***************************************************************************)
EXTENDS Media, TLC

CONSTANTS doc, note, space, ann, ben, cat, title, first, second, third,
          upload, uploadAgain, jot, jotAgain, patch, patchBack, suggest,
          retitle, delete, erase, fill, drop, read, log

Roles4 == ann :> "owner" @@ ben :> "writer" @@ cat :> "reader"
MCAccess == [p \in {ann, ben, cat} |-> [f \in {doc, note, space} |-> Roles4[p]]]

Ask(kind, by, file, new) ==
    [kind |-> kind, by |-> by, file |-> file, typed |-> file # note,
     value |-> [f \in {title} |-> new], field |-> title, new |-> new]

Catalogue ==
    upload :> Ask("upload", ann, doc, first)
    @@ uploadAgain :> Ask("upload", ben, doc, second)
    @@ jot :> [Ask("upload", ann, note, first) EXCEPT !.value = [f \in {title} |-> Absent]]
    @@ jotAgain :> Ask("upload", ben, note, second)
    @@ patch :> Ask("patch", ann, doc, second)
    @@ patchBack :> Ask("patch", ben, doc, first)
    @@ suggest :> Ask("patch", cat, doc, third)
    @@ retitle :> Ask("patch", ben, note, third)
    @@ delete :> Ask("delete", ann, doc, first)
    @@ erase :> Ask("delete", ben, doc, first)
    @@ fill :> Ask("upload", ben, space, first)
    @@ drop :> Ask("delete", ann, space, first)
    @@ read :> Ask("get", cat, doc, first)
    @@ log :> Ask("list", cat, doc, first)

Calls == [r \in Requests |-> Catalogue[r]]

\* Patches while they are listed; a patch against a delete; uploads against a
\* patch; a note written over, and a space removed, one with contents, too; a
\* delete by one who may write and does not own.
MCScripts == {{upload, patch, patchBack, log}, {upload, patch, suggest, log},
              {upload, patch, delete, read},
              {upload, uploadAgain, patch}, {jot, jotAgain, retitle, drop},
              {upload, erase, read}, {fill, drop}}
=============================================================================
