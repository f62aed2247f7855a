------------------------------- MODULE Models -------------------------------
(***************************************************************************)
(* The models of the server's repositories (db/repositories.js): for each  *)
(* one its table, the tables a spreadsheet import into it writes, those an *)
(* export reads, and whether its import honours the preview flag.  Reads   *)
(* and writes of single records touch the model's own table only; what a   *)
(* controller adds to that is in Controllers.                              *)
(***************************************************************************)
\* A model that inherits its statements from pg-schemata's TableModel, whose
\* import writes the rows whatever BaseController.importXls asks for.
Plain(t) == [table |-> t, imports |-> {t}, exports |-> {t}, previews |-> FALSE]

\* A model whose import is importSimpleTable: it classifies, and writes only
\* when it is not asked for a preview.
Sheet(t) == [Plain(t) EXCEPT !.previews = TRUE]

\* Children of a source record that a flat sheet carries in the rows of their
\* parent: those of people and vendors, and those of companies.
PlaceKinds == {"addresses", "taxIdentifiers"}
ContactKinds == PlaceKinds \cup {"emails", "phoneNumbers"}

\* What an import touches besides: the counters of the codes it allocates, and
\* the logins of the records that get or lose access to the portal.
Codes == {"tenantNumberSequenceState"}
Logins == {"portalUsers", "portalUserTenants"}

\* A record with a source row and children under it.  The import writes all of
\* them in one transaction; the export reads the record and the children.
Flat(t, kinds, more) ==
    [table    |-> t,
     imports  |-> {t, "sources"} \cup kinds \cup more,
     exports  |-> {t} \cup kinds,
     previews |-> TRUE]

\* Accounting.
CategoryAccountMap == Plain("categoryAccountMap")
ChartOfAccounts == Sheet("chartOfAccounts")
CompanyAccounts == Plain("companyAccounts")
CompanyTransactions == Plain("companyTransactions")
InternalTransfers == Plain("internalTransfers")
JournalEntries == Sheet("journalEntries")
JournalEntryLines == Plain("journalEntryLines")
LedgerBalances == Plain("ledgerBalances")
PostingQueues == Plain("postingQueues")

\* Activities.
Activities == Sheet("activities")
ActualCosts == Sheet("actualCosts")
Budgets == Sheet("budgets")
Categories == Sheet("categories")
CostLines == Plain("costLines")
DeliverableAssignments == Plain("deliverableAssignments")
Deliverables == Sheet("deliverables")
VendorParts == Plain("vendorParts")

\* Payables.
ApCreditMemos == Sheet("apCreditMemos")
ApInvoiceLines == Plain("apInvoiceLines")
ApInvoices == Sheet("apInvoices")
Payments == Sheet("payments")

\* Receivables.
ArInvoiceLines == Plain("arInvoiceLines")
ArInvoices == Sheet("arInvoices")
Receipts == Sheet("receipts")

\* Bill of materials.
CatalogSkus == Sheet("catalogSkus")
VendorPricing == Plain("vendorPricing")
VendorSkus == Plain("vendorSkus")

\* Projects.
ChangeOrders == Sheet("changeOrders")
CostItems == Plain("costItems")
ProjectClients == Plain("projectClients")
Projects == Sheet("projects")
TaskGroups == Plain("taskGroups")
Tasks == Plain("tasks")
TasksMaster == Plain("tasksMaster")
TemplateChangeOrders == Plain("templateChangeOrders")
TemplateCostItems == Plain("templateCostItems")
TemplateTasks == Plain("templateTasks")
TemplateUnits == Plain("templateUnits")
Units == Plain("units")

\* Tenants, logins and logs, in the admin schema.  The routes that would import
\* or export portal users are switched off.
Countries == Plain("countries")
ImpersonationLogs == Plain("impersonationLogs")
MatchReviewLogs == Plain("matchReviewLogs")
PortalUserTenants == Plain("portalUserTenants")
PortalUsers == Plain("portalUsers")
\* A row of the tenants' sheet updates a tenant, with its billing address, tax
\* identifier and phone number, or provisions a new one with its first user.
\* "tenantRecords" stands for the records in the schema of the tenant itself.
\* An archive made here moves no binding.
TenantRowUpdate == {"tenants", "tenantRecords"}
TenantRowCreate == {"tenants", "tenantRecords"} \cup Logins
Tenants ==
    [table    |-> "tenants",
     imports  |-> TenantRowUpdate \cup TenantRowCreate,
     exports  |-> {"tenants", "tenantRecords"},
     previews |-> TRUE]

\* Core records.  VendorContacts and Vendors use the older importer of several
\* sheets and pass it no options, so the preview flag is lost on the way.
Addresses == Plain("addresses")
Clients == Flat("clients", ContactKinds, Codes \cup Logins)
Companies == Flat("companies", PlaceKinds, {})
CompanyMembers == Plain("companyMembers")
Contacts == Flat("contacts", ContactKinds, Codes)
Emails == Plain("emails")
Employees == Flat("employees", ContactKinds, Codes \cup Logins)
FieldGroupDefinitions == Plain("fieldGroupDefinitions")
FieldGroupGrants == Plain("fieldGroupGrants")
PaymentTerms == Sheet("paymentTerms")
PhoneNumbers == Plain("phoneNumbers")
Policies == Plain("policies")
PolicyCatalog == Plain("policyCatalog")
ProjectMembers == Plain("projectMembers")
Roles == Plain("roles")
Sources == Plain("sources")
StateFilters == Plain("stateFilters")
TaxIdentifiers == Plain("taxIdentifiers")
TenantNumberSequenceState == Plain("tenantNumberSequenceState")
TenantNumberingConfig == Plain("tenantNumberingConfig")
TenantPreferences == Plain("tenantPreferences")
VendorContacts ==
    [Flat("vendorContacts", ContactKinds, Codes \cup Logins) EXCEPT !.previews = FALSE]
Vendors == [Flat("vendors", ContactKinds, Codes) EXCEPT !.previews = FALSE]

\* The sheets that carry vendors and their contacts together: one transaction
\* writes the vendors, then the contacts and the logins of the new ones.  It
\* archives and restores contacts, but no login with them.
CombinedVendors == {"vendors", "sources"} \cup ContactKinds \cup Codes
CombinedContacts ==
    {"vendorContacts", "sources", "emails", "phoneNumbers"} \cup Logins
CombinedExport == {"vendors", "vendorContacts", "paymentTerms"} \cup ContactKinds
VendorsCombined ==
    [table    |-> "vendors",
     imports  |-> CombinedVendors \cup CombinedContacts,
     exports  |-> CombinedExport,
     previews |-> TRUE]

-----------------------------------------------------------------------------
\* All of them, by repository name.
Repositories ==
    {CategoryAccountMap, ChartOfAccounts, CompanyAccounts, CompanyTransactions,
     InternalTransfers, JournalEntries, JournalEntryLines, LedgerBalances,
     PostingQueues, Activities, ActualCosts, Budgets, Categories,
     CostLines, DeliverableAssignments, Deliverables, VendorParts,
     ApCreditMemos, ApInvoiceLines, ApInvoices, Payments, ArInvoiceLines,
     ArInvoices, Receipts, CatalogSkus, VendorPricing, VendorSkus,
     ChangeOrders, CostItems, ProjectClients, Projects, TaskGroups, Tasks,
     TasksMaster, TemplateChangeOrders, TemplateCostItems, TemplateTasks,
     TemplateUnits, Units, Countries, ImpersonationLogs, MatchReviewLogs,
     PortalUserTenants, PortalUsers, Tenants, Addresses, Clients,
     Companies, CompanyMembers, Contacts, Emails, Employees,
     FieldGroupDefinitions, FieldGroupGrants, PaymentTerms, PhoneNumbers,
     Policies, PolicyCatalog, ProjectMembers, Roles, Sources,
     StateFilters, TaxIdentifiers, TenantNumberSequenceState,
     TenantNumberingConfig, TenantPreferences, VendorContacts, Vendors,
     VendorsCombined}
=============================================================================
