--------------------------- MODULE MCPublication ----------------------------
(***************************************************************************)
(* The node of MCDataService, with a DOI for each of its datasets.  Clients *)
(* ingest and query; readers follow a credential to the query it names, and *)
(* check it.                                                                *)
(***************************************************************************)
EXTENDS MCDataService, Publication

MCPublications ==
    {[did |-> d, doi |-> "doi", graph |-> Missing, endpoint |-> Missing] : d \in MCFoxdenDids}

(* Ingests of both datasets and the queries that their credentials lead to, *)
(* which clients send on their own as well.                                 *)
MCPublicationCalls ==
    {Call("ingest", "id3", "id3"),
     Call("ingest", "id3a", "ID3A"),
     Call("dataset", "id3", "id3"),
     Call("dataset", "id3a", "ID3A")}                        \* a followed URL: 400
=============================================================================
