------------------------------ MODULE Tenancy ------------------------------
(***************************************************************************)
(* The tenant an asynchronous chain works for (packages/db/src/            *)
(* tenant-context.ts) and the database client that keeps its queries to    *)
(* that tenant's rows (tenant-extension.ts).  A table is a set of rows     *)
(* with their tenant in the field org.                                     *)
(***************************************************************************)
CONSTANTS None, Tenants

MultiTenantModels ==
  {"TradingPartner", "RawFile", "Interchange", "FunctionalGroup", "Transaction",
   "Segment", "Element", "Alert", "User", "AuditEvent", "LifecycleNote"}
TenantExemptModels == {"Tenant", "Job"}

\* tenantContext.run and bypass, which keeps the tenant it is called under.  A
\* chain without a context has None.
Run(t)    == [tenant |-> t, bypass |-> FALSE]
Bypass(c) == [tenant |-> IF c = None THEN None ELSE c.tenant, bypass |-> TRUE]

Asked(named, table) == {x \in table : named \in {None, x.org}}

\* Slip: the where is sent as the caller wrote it.
ReachedAsAsked(c, model, named, table) == Asked(named, table)

\* injectInWhere: the rows that a query reaches which names a tenant or None.
Reached(c, model, named, table) ==
  IF model \in TenantExemptModels \/ c.bypass THEN Asked(named, table)
  ELSE {x \in Asked(named, table) : x.org = c.tenant}

\* injectInData: a row, or one nested in it, that names no tenant is given the
\* context's; a tenant it names is not compared with the context's.
Stamped(c, model, new) ==
  IF c.bypass \/ model \notin MultiTenantModels THEN new
  ELSE {[x EXCEPT !.org = IF @ = None THEN c.tenant ELSE @] : x \in new}
=============================================================================
