----------------------------- MODULE ServiceParts -----------------------------
(***************************************************************************)
(* The retrieval engine and the MCP server: parts that share no state with *)
(* each other in the model.  A behaviour is one of one of them.            *)
(***************************************************************************)
EXTENDS RagStore, Ranking, MetadataFilters, Passages, McpCatalog, McpNotifications

VARIABLE servicePart    \* the one that runs

serviceVars ==
    <<ragVars, ranked, filtered, passage, catalogVars, noteVars, servicePart>>

\* A fixed state for each part that does not run.
CatalogIdle == server = << >> /\ exchanges = << >>
NotesIdle ==
    /\ registry = << >> /\ minLevel = 0 /\ observers = << >> /\ todo = << >>
    /\ view = << >> /\ heard = {} /\ messages = 0

\* Searches, filters and texts begin with nothing: each is a part of its own all the same.
RetrievalIdle == RankInit /\ FilterInit /\ PassageInit

ServiceInit ==
    /\ RagInit /\ RetrievalIdle
    /\ \/ /\ servicePart \in {"documents", "ranking", "filters", "passages"}
          /\ CatalogIdle /\ NotesIdle
       \/ servicePart = "catalog" /\ CatalogInit /\ NotesIdle
       \/ servicePart = "notifications" /\ CatalogIdle /\ NoteInit

ServiceNext ==
    \/ /\ servicePart = "documents" /\ RagNext
       /\ UNCHANGED <<ranked, filtered, passage, catalogVars, noteVars, servicePart>>
    \/ /\ servicePart = "ranking" /\ RankNext
       /\ UNCHANGED <<ragVars, filtered, passage, catalogVars, noteVars, servicePart>>
    \/ /\ servicePart = "filters" /\ FilterNext
       /\ UNCHANGED <<ragVars, ranked, passage, catalogVars, noteVars, servicePart>>
    \/ /\ servicePart = "passages" /\ PassageNext
       /\ UNCHANGED <<ragVars, ranked, filtered, catalogVars, noteVars, servicePart>>
    \/ /\ servicePart = "catalog" /\ CatalogNext
       /\ UNCHANGED <<ragVars, ranked, filtered, passage, noteVars, servicePart>>
    \/ /\ servicePart = "notifications" /\ NoteNext
       /\ UNCHANGED <<ragVars, ranked, filtered, passage, catalogVars, servicePart>>

ServiceSpec == ServiceInit /\ [][ServiceNext]_serviceVars

-----------------------------------------------------------------------------
(* The instances                                                           *)

\* One word is asked for; a text stands for its length.
OneWord == {<<1>>}
LengthOf(text) == Len(text)

\* A text with the word, another one with the word twice and metadata, one without, and one
\* whose embedding has another dimension.
SomeBodies ==
    {Ingested(<<1>>, {}), Ingested(<<2, 1, 2>>, {"m1"}), Plain(<<2, 2>>, {}), Plain(<<1>>, {OtherDim})}

-----------------------------------------------------------------------------
(* The properties of a part, for the behaviours in which it runs           *)

=============================================================================
