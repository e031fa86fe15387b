------------------------------- MODULE Ensure -------------------------------
(***************************************************************************)
(* The outcome of reconciler.EnsureResource, shared by every controller of *)
(* the operator.  A child object is abstracted to the incarnation (UID) of *)
(* the object that owns it, Absent when there is none.  EnsureResource     *)
(* reads the child through the informer cache and writes to the API        *)
(* server, so two views of the child matter: `cached` and `api`; `stale`   *)
(* says that the cached resourceVersion is not the API server's.           *)
(***************************************************************************)
EXTENDS Naturals

Absent == 0

\* Get from the cache says NotFound, and Create finds the name free.
EnsureCreates(cached, api) == cached = Absent /\ api = Absent

\* Faulty variant: a child of another owner is taken over.
EnsureFailsAdopting(cached, api, owner, rewrites, stale) ==
  \/ cached = Absent /\ api /= Absent
  \/ cached /= Absent /\ rewrites /\ stale

\* The error returns: Create answers AlreadyExists (the cache has not seen the
\* object yet), the object is controlled by another owner, or Update (made
\* when `rewrites`: mutateFn changes the object) answers Conflict or NotFound.
EnsureFails(cached, api, owner, rewrites, stale) ==
  \/ cached = Absent /\ api /= Absent
  \/ cached /= Absent /\ cached /= owner
  \/ cached = owner /\ rewrites /\ stale

\* Whose content the child has after a call that returns no error: Create and
\* Update write the owner's, and what the cache shows to be the owner's already
\* is left alone.
Ensured(cached, api, owner) == IF cached = owner THEN api ELSE owner
=============================================================================
