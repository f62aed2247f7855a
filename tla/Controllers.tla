---------------------------- MODULE Controllers ----------------------------
(***************************************************************************)
(* The controllers: for every handler the tables its answer is read from   *)
(* and the tables it writes when it succeeds.  Guards, statuses and the    *)
(* order of the writes are in the modules of the components; here is what  *)
(* a handler can change, which is what a client that caches answers has to *)
(* know.                                                                   *)
(***************************************************************************)
EXTENDS Models, TLC

\* A handler is known by what it reads for its answer and what it writes.
Reading(ts) == [reads |-> ts, writes |-> {}]
Writing(ts) == [reads |-> {}, writes |-> ts]

\* A controller is a function from its handlers to their effects.
Handlers(names, effect) == [h \in names |-> effect]

\* ViewController: what every controller can read of its model.
View(model) ==
    Handlers({"get", "getWhere", "getById"}, Reading({model.table}))
        @@ "exportXls" :> Reading(model.exports)

\* BaseController: single rows and sets of rows of the model's table, and
\* imports.  "previewXls" is importXls asked for a preview.
Base(model) ==
    View(model)
        @@ Handlers({"create", "update", "archive", "restore", "bulkInsert",
                     "bulkUpdate"}, Writing({model.table}))
        @@ "importXls" :> Writing(model.imports)
        @@ "previewXls" :> IF model.previews THEN Reading(model.exports)
                                             ELSE Writing(model.imports)

-----------------------------------------------------------------------------
\* Accounting.
Booking == {"journalEntries", "journalEntryLines", "postingQueues"}
Posting == {"ledgerBalances", "journalEntries", "postingQueues"}

CategoryAccountMapController == Base(CategoryAccountMap)
ChartOfAccountsController == Base(ChartOfAccounts)
CompanyAccountsController == Base(CompanyAccounts)
CompanyTransactionsController == Base(CompanyTransactions)
InternalTransfersController == Base(InternalTransfers)
JournalEntriesController ==
    "create" :> Writing(Booking)
        @@ "post" :> Writing(Posting)
        @@ "reverse" :> Writing(Booking)
        @@ Base(JournalEntries)
JournalEntryLinesController == Base(JournalEntryLines)
LedgerBalancesController == View(LedgerBalances)
PostingQueuesController == "retry" :> Writing(Posting) @@ Base(PostingQueues)

\* Activities.
ActivitiesController == Base(Activities)
ActualCostsController == Base(ActualCosts)
BudgetsController == "createNewVersion" :> Writing({"budgets"}) @@ Base(Budgets)
CategoriesController == Base(Categories)
CostLinesController == Base(CostLines)
DeliverableAssignmentsController == Base(DeliverableAssignments)
DeliverablesController == Base(Deliverables)
VendorPartsController == Base(VendorParts)

\* Payables and receivables: an approval numbers the invoice and books it, a
\* payment books itself and may settle its invoice.
ApCreditMemosController ==
    "update" :> Writing({"apCreditMemos", "apInvoices"}) @@ Base(ApCreditMemos)
ApInvoiceLinesController == Base(ApInvoiceLines)
ApInvoicesController ==
    "update" :> Writing({"apInvoices"} \cup Codes \cup Booking) @@ Base(ApInvoices)
PaymentsController ==
    "create" :> Writing({"payments", "apInvoices"} \cup Booking) @@ Base(Payments)
ArInvoiceLinesController == Base(ArInvoiceLines)
ArInvoicesController ==
    "update" :> Writing({"arInvoices"} \cup Codes \cup Booking) @@ Base(ArInvoices)
ReceiptsController ==
    "create" :> Writing({"receipts", "arInvoices"} \cup Booking) @@ Base(Receipts)

\* Bill of materials.
CatalogSkusController ==
    "refreshEmbeddings" :> Writing({"catalogSkus"}) @@ Base(CatalogSkus)
VendorPricingController == Base(VendorPricing)
Matching == {"vendorSkus", "matchReviewLogs"}
VendorSkusController ==
    "getUnmatched" :> Reading({"vendorSkus"})
        @@ "match" :> Reading({"vendorSkus", "catalogSkus"})
        @@ Handlers({"autoMatchEndpoint", "batchMatchEndpoint"}, Writing(Matching))
        @@ "refreshEmbeddings" :> Writing({"vendorSkus"})
        @@ Base(VendorSkus)

\* Projects.
ChangeOrdersController == Base(ChangeOrders)
CostItemsController == Base(CostItems)
ProjectClientsController == Base(ProjectClients)
ProjectsController == "create" :> Writing({"projects"} \cup Codes) @@ Base(Projects)
TaskGroupsController == Base(TaskGroups)
TasksController == Base(Tasks)
TasksMasterController == Base(TasksMaster)
TemplateChangeOrdersController == Base(TemplateChangeOrders)
TemplateCostItemsController == Base(TemplateCostItems)
TemplateTasksController == Base(TemplateTasks)
TemplateUnitsController == Base(TemplateUnits)
UnitsController == Base(Units)

-----------------------------------------------------------------------------
\* Reports read views; these are the tables under each.
ProjectMoney == {"arInvoices", "receipts", "apInvoices", "payments", "actualCosts"}
vw_project_profitability ==
    ProjectMoney \cup {"projects", "costItems", "tasks", "units", "changeOrders"}
vw_project_cashflow_monthly == ProjectMoney
vw_project_cost_by_category ==
    {"deliverableAssignments", "budgets", "activities", "categories", "actualCosts"}
vw_ar_aging == {"arInvoices", "clients", "receipts"}
vw_ap_aging == {"apInvoices", "vendors", "payments", "apCreditMemos"}

ApAgingController ==
    Handlers({"getAll", "getByVendor"}, Reading(vw_ap_aging))
ArAgingController ==
    Handlers({"getAll", "getByClient"}, Reading(vw_ar_aging))
Forecast == ProjectMoney \cup {"apCreditMemos"}
CashflowController ==
    Handlers({"getByProject", "getCompanyCashflow"},
             Reading(vw_project_cashflow_monthly))
        @@ "getForecast" :> Reading(Forecast)
CostBreakdownController == "getByProject" :> Reading(vw_project_cost_by_category)
MarginAnalysisController == "getAll" :> Reading(vw_project_profitability)
ProfitabilityController ==
    Handlers({"getAll", "getByProject"}, Reading(vw_project_profitability))

-----------------------------------------------------------------------------
\* Core records.  Creating one creates its source row and, with numbering on,
\* takes a code; people who may log in carry a login along.
AddressesController == Base(Addresses)
CompaniesController == "create" :> Writing({"companies", "sources"}) @@ Base(Companies)
CompanyMembersController == Base(CompanyMembers)
ContactsController ==
    "create" :> Writing({"contacts", "sources"} \cup Codes) @@ Base(Contacts)

\* The same four tables are at stake wherever a person gets or loses access.
ClientsCreate == Writing({"clients", "sources", "emails"} \cup Codes \cup Logins)
ClientsUpdate == Writing({"clients", "emails"} \cup Logins)
ClientsController ==
    "create" :> ClientsCreate
        @@ "update" :> ClientsUpdate
        @@ Handlers({"archive", "restore"}, Writing({"clients"} \cup Logins))
        @@ "resetPassword" :> Writing({"portalUsers"})
        @@ Base(Clients)

EmployeesCreate == Writing({"employees", "sources", "emails"} \cup Codes \cup Logins)
EmployeesUpdate == Writing({"employees", "emails"} \cup Logins)
EmployeesController ==
    "create" :> EmployeesCreate
        @@ "update" :> EmployeesUpdate
        @@ Handlers({"archive", "restore"}, Writing({"employees"} \cup Logins))
        @@ "resetPassword" :> Writing({"portalUsers"})
        @@ "getSourceId" :> Reading({"sources"})
        @@ Base(Employees)

VendorContactsCreate == Writing({"vendorContacts", "sources", "emails"} \cup Logins)
VendorContactsUpdate == Writing({"vendorContacts", "emails"} \cup Logins)
SwapLoginEmail == Writing({"emails"} \cup Logins)
VendorContactsController ==
    "create" :> VendorContactsCreate
        @@ "update" :> VendorContactsUpdate
        @@ Handlers({"archive", "restore"}, Writing({"vendorContacts"} \cup Logins))
        @@ "resetPassword" :> Writing({"portalUsers"})
        @@ "swapLoginEmail" :> SwapLoginEmail
        @@ Base(VendorContacts)

\* Archiving a vendor archives its contacts and their logins; restoring it
\* brings the same cohort back.
VendorsArchive == Writing({"vendors", "vendorContacts"} \cup Logins)
VendorsRestore == Writing({"vendors", "vendorContacts"} \cup Logins)
VendorsController ==
    "create" :> Writing({"vendors", "sources"} \cup Codes)
        @@ "archive" :> VendorsArchive
        @@ "restore" :> VendorsRestore
        @@ "exportCombinedXls" :> Reading(VendorsCombined.exports)
        @@ "importCombinedXls" :> Writing(VendorsCombined.imports)
        @@ "previewCombinedXls" :> Reading(VendorsCombined.exports)
        @@ Base(Vendors)

\* A login address is the address of the portal user too.
EmailsController ==
    Handlers({"create", "update"}, Writing({"emails", "portalUsers"})) @@ Base(Emails)
PhoneNumbersController == Base(PhoneNumbers)
TaxIdentifiersController == Base(TaxIdentifiers)
SourcesController == Base(Sources)
PaymentTermsController == Base(PaymentTerms)
ProjectMembersController == Base(ProjectMembers)

\* Roles and what they grant.  A field group definition is deleted, and the
\* grants that name it with it.
RolesController == Base(Roles)
PoliciesController == "syncForRole" :> Writing({"policies"}) @@ Base(Policies)
PolicyCatalogController == Base(PolicyCatalog)
StateFiltersController ==
    "syncForRole" :> Writing({"stateFilters"}) @@ Base(StateFilters)
FieldGroupDefinitionsController ==
    "archive" :> Writing({"fieldGroupDefinitions", "fieldGroupGrants"})
        @@ Base(FieldGroupDefinitions)
FieldGroupGrantsController ==
    "syncForRole" :> Writing({"fieldGroupGrants"}) @@ Base(FieldGroupGrants)

\* Enabling the numbers of a kind of record gives codes to those without one.
NumberingConfigController ==
    "update" :> Writing({"tenantNumberingConfig", "employees", "vendors",
                         "clients", "contacts"} \cup Codes)
        @@ Base(TenantNumberingConfig)
TenantPreferencesController == Base(TenantPreferences)

-----------------------------------------------------------------------------
\* Tenants and logins, for the root tenant.
MatchReviewLogsController == View(MatchReviewLogs)
PortalUsersReads == {"portalUsers", "portalUserTenants"}
PortalUsersController ==
    Handlers({"get", "getWhere", "getById"}, Reading(PortalUsersReads))
        @@ "register" :> Writing(Logins)
        @@ "update" :> Writing({"portalUsers"})
        @@ Handlers({"archive", "restore"}, Writing(Logins))
        @@ Base(PortalUsers)
TenantsProvision == Writing(TenantRowCreate)
TenantsArchive == Writing({"tenants"} \cup Logins)
TenantsRestore == Writing({"tenants"} \cup Logins)
TenantsController ==
    "create" :> TenantsProvision
        @@ "archive" :> TenantsArchive
        @@ "restore" :> TenantsRestore
        @@ "getAllowedModules" :> Reading({"tenants"})
        @@ Handlers({"getContacts", "getCompany"}, Reading({"tenants", "tenantRecords"}))
        @@ Base(Tenants)
OrphanPortalUsersController ==
    "findOrphans" :> Reading({"portalUsers", "portalUserTenants"})
        @@ "cleanupOrphan" :> Writing(Logins)

\* Sessions: cookies, the password and the address of the login, and the key
\* that says whom an administrator impersonates.
AdminController ==
    "getAllSchemas" :> Reading({"tenants"})
        @@ Handlers({"startImpersonation", "endImpersonation"},
                    Writing({"impersonationLogs", "session"}))
        @@ "getImpersonationStatus" :> Reading({"session"})
AuthController ==
    Handlers({"login", "refresh", "logout"}, Writing({"session"}))
        @@ "changePassword" :> Writing({"portalUsers"})
        @@ "changeEmail" :> Writing({"portalUsers", "emails"})
        @@ Handlers({"me", "check"}, Reading({"session"}))
=============================================================================
