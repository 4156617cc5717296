----------------------------- MODULE Catalogue -----------------------------
(***************************************************************************)
(* domain.Catalog as the adapters use it: a sequence of endpoints, each a  *)
(* service and the id of one of its operations.  Nothing keeps an id to    *)
(* one service, and a reranked shortlist may name an endpoint twice.       *)
(***************************************************************************)
EXTENDS Integers, Sequences

EndpointsOf(catalog) == {catalog[i] : i \in DOMAIN catalog}
IdsOf(catalog) == {e.id : e \in EndpointsOf(catalog)}
ServicesOf(catalog) == {e.service : e \in EndpointsOf(catalog)}
IdsIn(catalog, service) == {e.id : e \in {f \in EndpointsOf(catalog) : f.service = service}}
CountIn(catalog, service) == Len(SelectSeq(catalog, LAMBDA e : e.service = service))

Places(catalog, id) == {i \in DOMAIN catalog : catalog[i].id = id}

\* serviceFor stops at the first endpoint of the id.
FirstServiceOf(catalog, id) ==
    catalog[CHOOSE i \in Places(catalog, id) : \A j \in Places(catalog, id) : i <= j].service

\* parse's byID keeps the last.
LastServiceOf(catalog, id) ==
    catalog[CHOOSE i \in Places(catalog, id) : \A j \in Places(catalog, id) : j <= i].service
=============================================================================
