------------------------------ MODULE MCSockets ------------------------------
(***************************************************************************)
(* Small instances of Sockets.  A behaviour has the clients of one         *)
(* gathering: ann twice, ben and eve, who may not read it, on one file,    *)
(* somebody with a session that was never signed in to and somebody        *)
(* without one, two clients that wait for the end of a login, a path that  *)
(* has no route, and a file in a circle, asked for by ann, whom its walk   *)
(* never reaches, and by ben, who reads it, while a browser tab keeps a    *)
(* plain connection.                                                       *)
(***************************************************************************)
EXTENDS Sockets, TLC

CONSTANTS ann, ben, eve, file, ring, files, history, auth, nowhere,
          annFile, annFileAgain, benFile, annFiles, benFiles, anyFiles, anyFile, noFile,
          annHistory, anyHistory, annLogin, benLogin, annNowhere, annRing, benRing, eveFile, tab

MCKind == file :> "file" @@ ring :> "file" @@ files :> "files" @@ history :> "history"
          @@ auth :> "auth" @@ nowhere :> "other"

Catalogue ==
    annFile :> <<ann, file>> @@ annFileAgain :> <<ann, file>>
    @@ benFile :> <<ben, file>> @@ eveFile :> <<eve, file>> @@ anyFile :> <<Anonymous, file>>
    @@ annFiles :> <<ann, files>> @@ benFiles :> <<ben, files>> @@ anyFiles :> <<Anonymous, files>>
    @@ noFile :> <<NoSession, file>>
    @@ annHistory :> <<ann, history>> @@ anyHistory :> <<Anonymous, history>>
    @@ annLogin :> <<Anonymous, auth>> @@ benLogin :> <<Anonymous, auth>>
    @@ annNowhere :> <<ann, nowhere>> @@ annRing :> <<ann, ring>> @@ benRing :> <<ben, ring>>

MCUser == [c \in Clients |-> Catalogue[c][1]]
MCUrl == [c \in Clients |-> Catalogue[c][2]]
MCReaders == {<<ann, file>>, <<ben, file>>, <<ben, ring>>}

\* Refusals at a file that two others watch, of a signed-in user there, and at the
\* list of files; waiting for the end of a login; everything else; the circle.
MCGatherings == {{annFile, benFile, anyFile}, {annFile, annFileAgain, eveFile},
                 {annFiles, benFiles, anyFiles}, {annLogin, benLogin, annNowhere}, {annHistory, anyHistory, noFile},
                 {annRing, benRing, tab}}
Pair == {{annFile, benFile}}
=============================================================================
