----------------------------- MODULE MCTerminal ------------------------------
(* The three programs: container-builder, cb-status and cb-images. *)
EXTENDS Terminal

Call   == Does("call")
Debug  == Does("debug")
Note   == Does("note")
Remark == Does("remark")
Write  == Does("write")

\* main of container-builder.  Any check of the input files may throw, also after the
\* remark on the recipe; the note in the middle of a wait is write_file's.
ContainerBuilder ==
    << Call, Does("parse"), Debug, Call, Remark, Call, Remark,
       Wait("queue"), Call, Stop("queue"),
       Wait("builder"), Debug, Call, Stop("builder"), Debug, Call,
       Wait("context"), Debug, Call, Note, Debug, Call, Stop("context"),
       Note, Write, Note, Debug, Call,
       Wait("image"), Debug, Call, Stop("image"), Does("close") >>

\* main of cb-status.
Status ==
    << Debug, Call, Wait("queue"), Call, Stop("queue"),
       Note, Debug, Call, Write, Does("close") >>

\* main of cb-images.
Images ==
    << Debug, Call, Wait("queue"), Call, Stop("queue"),
       Wait("images"), Debug, Call, Stop("images"), Write, Does("close") >>

ClientScripts  == [build |-> ContainerBuilder, status |-> Status, images |-> Images]
ClientHiding   == {"build"}
ClientMessages == {"queue", "builder", "context", "image", "images"}
ClientNoisy    == {"context"}
=============================================================================
