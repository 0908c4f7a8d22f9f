-------------------------- MODULE MCArtifactCommit --------------------------
(* Small instances of ArtifactCommit: two videos and one storyboard. *)
EXTENDS ArtifactCommit, TLC

CONSTANTS video, clip, board, paid, take, image, restore, redo, upload, edit

MCTarget ==
  (paid :> video) @@ (take :> clip) @@ (image :> board) @@ (restore :> video) @@ (redo :> board)
    @@ (upload :> video) @@ (edit :> video)
=============================================================================
