------------------------------- MODULE Routes -------------------------------
(***************************************************************************)
(* The routers, as Express sees them: for each mount a sequence of routes, *)
(* tried in the order they were added, the first that matches taking the   *)
(* request.  The order is what can go wrong: a route with a parameter      *)
(* takes every request with as many segments that comes to it, and a       *)
(* route that was switched off lets them fall through to the next.         *)
(* Middlewares that only let a request pass or stop it are left out.       *)
(***************************************************************************)
EXTENDS Controllers, SequencesExt

On(verb, path, handler) == [verb |-> verb, path |-> path, handler |-> handler]

Router(controller, routes) == [controller |-> controller, routes |-> routes]

\* createRouter adds these, each unless its flag switches it off; what a module
\* adds comes before or after, as the module puts it.
StandardRoutes ==
    <<<<"Post",        On("POST",   <<>>, "create")>>,
      <<"Get",         On("GET",    <<>>, "get")>>,
      <<"GetWhere",    On("GET",    <<"where">>, "getWhere")>>,
      <<"GetArchived", On("GET",    <<"archived">>, "getWhere")>>,
      <<"Ping",        On("GET",    <<"ping">>, "ping")>>,
      <<"GetById",     On("GET",    <<":id">>, "getById")>>,
      <<"BulkInsert",  On("POST",   <<"bulk-insert">>, "bulkInsert")>>,
      <<"ImportXls",   On("POST",   <<"import-xls">>, "importXls")>>,
      <<"ExportXls",   On("POST",   <<"export-xls">>, "exportXls")>>,
      <<"BulkUpdate",  On("PUT",    <<"bulk-update">>, "bulkUpdate")>>,
      <<"Put",         On("PUT",    <<"update">>, "update")>>,
      <<"Delete",      On("DELETE", <<"archive">>, "archive")>>,
      <<"Patch",       On("PATCH",  <<"restore">>, "restore")>>>>

createRouter(off) ==
    LET kept == SelectSeq(StandardRoutes, LAMBDA r : r[1] \notin off)
    IN  [i \in 1 .. Len(kept) |-> kept[i][2]]

\* The flags that are set together.
Sheets == {"ImportXls", "ExportXls"}
Writes == {"Post", "Put", "Delete", "Patch", "BulkInsert", "BulkUpdate",
           "ImportXls"}

-----------------------------------------------------------------------------
\* Accounting.
chartOfAccountsRouter == Router(ChartOfAccountsController, createRouter({}))
journalEntriesRouter ==
    Router(JournalEntriesController,
        <<On("POST", <<"post">>, "post"),
        On("POST", <<"reverse">>, "reverse")>> \o createRouter({}))
journalEntryLinesRouter ==
    Router(JournalEntryLinesController, createRouter(Sheets))
ledgerBalancesRouter == Router(LedgerBalancesController, createRouter(Writes))
postingQueuesRouter ==
    Router(PostingQueuesController,
        <<On("POST", <<"retry">>, "retry")>> \o createRouter({}))
categoryAccountMapRouter ==
    Router(CategoryAccountMapController, createRouter({}))
companyAccountsRouter == Router(CompanyAccountsController, createRouter({}))
companyTransactionsRouter ==
    Router(CompanyTransactionsController, createRouter({}))
internalTransfersRouter ==
    Router(InternalTransfersController, createRouter({}))
accountingApiRoutes ==
    "chart-of-accounts" :> chartOfAccountsRouter
        @@ "journal-entries" :> journalEntriesRouter
        @@ "journal-entry-lines" :> journalEntryLinesRouter
        @@ "ledger-balances" :> ledgerBalancesRouter
        @@ "posting-queues" :> postingQueuesRouter
        @@ "category-account-map" :> categoryAccountMapRouter
        @@ "company-accounts" :> companyAccountsRouter
        @@ "company-transactions" :> companyTransactionsRouter
        @@ "internal-transfers" :> internalTransfersRouter

-----------------------------------------------------------------------------
\* Activities.
categoriesRouter == Router(CategoriesController, createRouter({}))
activitiesRouter == Router(ActivitiesController, createRouter({}))
deliverablesRouter == Router(DeliverablesController, createRouter({}))
deliverableAssignmentsRouter ==
    Router(DeliverableAssignmentsController, createRouter(Sheets))
budgetsRouter ==
    Router(BudgetsController, createRouter({}) \o
        <<On("POST", <<"new-version">>, "createNewVersion")>>)
costLinesRouter == Router(CostLinesController, createRouter({}))
actualCostsRouter == Router(ActualCostsController, createRouter({}))
vendorPartsRouter == Router(VendorPartsController, createRouter({}))
activitiesApiRoutes ==
    "categories" :> categoriesRouter
        @@ "activities" :> activitiesRouter
        @@ "deliverables" :> deliverablesRouter
        @@ "deliverable-assignments" :> deliverableAssignmentsRouter
        @@ "budgets" :> budgetsRouter
        @@ "cost-lines" :> costLinesRouter
        @@ "actual-costs" :> actualCostsRouter
        @@ "vendor-parts" :> vendorPartsRouter

-----------------------------------------------------------------------------
\* Payables.
apInvoicesRouter == Router(ApInvoicesController, createRouter({}))
apInvoiceLinesRouter == Router(ApInvoiceLinesController, createRouter(Sheets))
paymentsRouter == Router(PaymentsController, createRouter({}))
apCreditMemosRouter == Router(ApCreditMemosController, createRouter({}))
apApiRoutes ==
    "ap-invoices" :> apInvoicesRouter
        @@ "ap-invoice-lines" :> apInvoiceLinesRouter
        @@ "payments" :> paymentsRouter
        @@ "ap-credit-memos" :> apCreditMemosRouter

-----------------------------------------------------------------------------
\* Receivables.
arInvoicesRouter ==
    Router(ArInvoicesController,
        <<On("PUT", <<"approve">>, "update")>> \o createRouter({}))
arInvoiceLinesRouter == Router(ArInvoiceLinesController, createRouter(Sheets))
receiptsRouter == Router(ReceiptsController, createRouter({}))
arApiRoutes ==
    "ar-invoices" :> arInvoicesRouter
        @@ "ar-invoice-lines" :> arInvoiceLinesRouter
        @@ "receipts" :> receiptsRouter

-----------------------------------------------------------------------------
\* Bill of materials.
catalogSkusRouter ==
    Router(CatalogSkusController, createRouter({}) \o
        <<On("POST", <<"refresh-embeddings">>, "refreshEmbeddings")>>)
\* Mutant: the module's own routes come last.
OwnRoutesLast ==
    Router(VendorSkusController, createRouter({}) \o
        <<On("GET", <<"unmatched">>, "getUnmatched"),
        On("POST", <<"match">>, "match"),
        On("POST", <<"auto-match">>, "autoMatchEndpoint"),
        On("POST", <<"batch-match">>, "batchMatchEndpoint"),
        On("POST", <<"refresh-embeddings">>, "refreshEmbeddings")>>)

vendorSkusRouter ==
    Router(VendorSkusController,
        <<On("GET", <<"unmatched">>, "getUnmatched"),
        On("POST", <<"match">>, "match"),
        On("POST", <<"auto-match">>, "autoMatchEndpoint"),
        On("POST", <<"batch-match">>, "batchMatchEndpoint"),
        On("POST", <<"refresh-embeddings">>,
           "refreshEmbeddings")>> \o createRouter({}))
vendorPricingRouter == Router(VendorPricingController, createRouter({}))
bomApiRoutes ==
    "catalog-skus" :> catalogSkusRouter
        @@ "vendor-skus" :> vendorSkusRouter
        @@ "vendor-pricing" :> vendorPricingRouter

-----------------------------------------------------------------------------
\* Projects.
projectsRouter == Router(ProjectsController, createRouter({}))
unitsRouter == Router(UnitsController, createRouter({}))
tasksRouter == Router(TasksController, createRouter({}))
taskGroupsRouter == Router(TaskGroupsController, createRouter({}))
tasksMasterRouter == Router(TasksMasterController, createRouter({}))
costItemsRouter == Router(CostItemsController, createRouter(Sheets))
changeOrdersRouter == Router(ChangeOrdersController, createRouter({}))
templateUnitsRouter == Router(TemplateUnitsController, createRouter(Sheets))
templateTasksRouter == Router(TemplateTasksController, createRouter(Sheets))
templateCostItemsRouter ==
    Router(TemplateCostItemsController, createRouter(Sheets))
templateChangeOrdersRouter ==
    Router(TemplateChangeOrdersController, createRouter(Sheets))
projectClientsRouter == Router(ProjectClientsController, createRouter({}))
projectsApiRoutes ==
    "projects" :> projectsRouter
        @@ "units" :> unitsRouter
        @@ "tasks" :> tasksRouter
        @@ "task-groups" :> taskGroupsRouter
        @@ "tasks-master" :> tasksMasterRouter
        @@ "cost-items" :> costItemsRouter
        @@ "change-orders" :> changeOrdersRouter
        @@ "template-units" :> templateUnitsRouter
        @@ "template-tasks" :> templateTasksRouter
        @@ "template-cost-items" :> templateCostItemsRouter
        @@ "template-change-orders" :> templateChangeOrdersRouter
        @@ "project-clients" :> projectClientsRouter

-----------------------------------------------------------------------------
\* Core.
sourcesRouter == Router(SourcesController, createRouter(Sheets))
vendorsRouter ==
    Router(VendorsController, createRouter({}) \o
        <<On("POST", <<"export-combined-xls">>, "exportCombinedXls"),
        On("POST", <<"import-combined-xls">>, "importCombinedXls")>>)
clientsRouter ==
    Router(ClientsController, createRouter({}) \o
        <<On("POST", <<":id", "reset-password">>, "resetPassword")>>)
employeesRouter ==
    Router(EmployeesController, createRouter({}) \o
        <<On("GET", <<":id", "source-id">>, "getSourceId"),
        On("POST", <<":id", "reset-password">>, "resetPassword")>>)
contactsRouter == Router(ContactsController, createRouter({}))
addressesRouter == Router(AddressesController, createRouter(Sheets))
phoneNumbersRouter == Router(PhoneNumbersController, createRouter(Sheets))
companiesRouter == Router(CompaniesController, createRouter({}))
taxIdentifiersRouter == Router(TaxIdentifiersController, createRouter(Sheets))
emailsRouter == Router(EmailsController, createRouter(Sheets))
vendorContactsRouter ==
    Router(VendorContactsController, createRouter({}) \o
        <<On("POST", <<":id", "reset-password">>, "resetPassword"),
        On("PUT", <<":id", "swap-login-email">>, "swapLoginEmail")>>)
rolesRouter == Router(RolesController, createRouter(Sheets))
policiesRouter ==
    Router(PoliciesController, createRouter(Sheets) \o
        <<On("PUT", <<"sync-for-role">>, "syncForRole")>>)
policyCatalogRouter ==
    Router(PolicyCatalogController, createRouter(Writes \cup {"ExportXls"}))
stateFiltersRouter ==
    Router(StateFiltersController, createRouter(Sheets) \o
        <<On("PUT", <<"sync-for-role">>, "syncForRole")>>)
fieldGroupDefinitionsRouter ==
    Router(FieldGroupDefinitionsController, createRouter(Sheets))
fieldGroupGrantsRouter ==
    Router(FieldGroupGrantsController, createRouter(Sheets) \o
        <<On("PUT", <<"sync-for-role">>, "syncForRole")>>)
projectMembersRouter == Router(ProjectMembersController, createRouter({}))
companyMembersRouter == Router(CompanyMembersController, createRouter({}))
numberingConfigRouter ==
    Router(NumberingConfigController,
           createRouter(Sheets \cup {"Delete", "Patch", "BulkInsert"}))
paymentTermsRouter == Router(PaymentTermsController, createRouter({}))
tenantPreferencesRouter ==
    Router(TenantPreferencesController,
           createRouter(Sheets \cup {"Delete", "Patch", "BulkInsert", "Post"}))
coreApiRoutes ==
    "sources" :> sourcesRouter
        @@ "vendors" :> vendorsRouter
        @@ "clients" :> clientsRouter
        @@ "employees" :> employeesRouter
        @@ "contacts" :> contactsRouter
        @@ "addresses" :> addressesRouter
        @@ "phone-numbers" :> phoneNumbersRouter
        @@ "companies" :> companiesRouter
        @@ "tax-identifiers" :> taxIdentifiersRouter
        @@ "emails" :> emailsRouter
        @@ "vendor-contacts" :> vendorContactsRouter
        @@ "roles" :> rolesRouter
        @@ "policies" :> policiesRouter
        @@ "policy-catalog" :> policyCatalogRouter
        @@ "state-filters" :> stateFiltersRouter
        @@ "field-group-definitions" :> fieldGroupDefinitionsRouter
        @@ "field-group-grants" :> fieldGroupGrantsRouter
        @@ "project-members" :> projectMembersRouter
        @@ "company-members" :> companyMembersRouter
        @@ "numbering-config" :> numberingConfigRouter
        @@ "payment-terms" :> paymentTermsRouter
        @@ "tenant-preferences" :> tenantPreferencesRouter

-----------------------------------------------------------------------------
\* Tenants.
tenantsRouter ==
    Router(TenantsController,
           createRouter({"BulkInsert", "BulkUpdate", "Ping"}) \o
        <<On("GET", <<":id", "allowed-modules">>, "getAllowedModules"),
        On("GET", <<":id", "contacts">>, "getContacts"),
        On("GET", <<":id", "company">>, "getCompany")>>)
portalUsersRouter ==
    Router(PortalUsersController,
           createRouter(Sheets \cup {"BulkUpdate", "Post", "BulkInsert",
                                     "Ping"}) \o
        <<On("POST", <<"register">>, "register")>>)
matchReviewLogsRouter ==
    Router(MatchReviewLogsController,
           createRouter(Writes \cup {"ExportXls", "Ping"}))
orphanPortalUsersRouter ==
    Router(OrphanPortalUsersController,
        <<On("GET", <<"orphans", "preview">>, "findOrphans"),
          On("POST", <<"orphans", "cleanup">>, "cleanupOrphan")>>)
adminRouter ==
    Router(AdminController,
        <<On("GET", <<"schemas">>, "getAllSchemas"),
          On("POST", <<"impersonate">>, "startImpersonation"),
          On("POST", <<"exit-impersonation">>, "endImpersonation"),
          On("GET", <<"impersonation-status">>, "getImpersonationStatus")>>)
tenantsApiRoutes ==
    "tenants" :> tenantsRouter
        @@ "portal-users" :> portalUsersRouter
        @@ "orphan-portal-users" :> orphanPortalUsersRouter
        @@ "admin" :> adminRouter
        @@ "match-review-logs" :> matchReviewLogsRouter

-----------------------------------------------------------------------------
\* Reports and sessions have one router each.
ReportController ==
    [profitability |-> ProfitabilityController, cashflow |-> CashflowController,
     costBreakdown |-> CostBreakdownController, arAging |-> ArAgingController,
     apAging |-> ApAgingController, marginAnalysis |-> MarginAnalysisController]

\* Reports have a controller each, so here a handler names both.
Report(path, c, h) == On("GET", path, <<c, h>>)
reportsRouter ==
    Router([r \in UNION {{c} \X DOMAIN ReportController[c] : c \in DOMAIN ReportController}
                |-> ReportController[r[1]][r[2]]],
        <<On("GET", <<"ping">>, "ping"),
          Report(<<"project-profitability">>, "profitability", "getAll"),
          Report(<<"project-profitability", ":id">>, "profitability",
                 "getByProject"),
          Report(<<"project-cashflow", ":id", "forecast">>, "cashflow",
                 "getForecast"),
          Report(<<"project-cashflow", ":id">>, "cashflow", "getByProject"),
          Report(<<"project-cost-breakdown", ":id">>, "costBreakdown",
                 "getByProject"),
          Report(<<"ar-aging">>, "arAging", "getAll"),
          Report(<<"ar-aging", ":id">>, "arAging", "getByClient"),
          Report(<<"ap-aging">>, "apAging", "getAll"),
          Report(<<"ap-aging", ":id">>, "apAging", "getByVendor"),
          Report(<<"company-cashflow">>, "cashflow", "getCompanyCashflow"),
          Report(<<"margin-analysis">>, "marginAnalysis", "getAll")>>)

authRouter ==
    Router(AuthController,
        <<On("POST",  <<"login">>, "login"),
          On("POST",  <<"refresh">>, "refresh"),
          On("POST",  <<"logout">>, "logout"),
          On("POST",  <<"change-password">>, "changePassword"),
          On("PATCH", <<"me", "email">>, "changeEmail"),
          On("GET",   <<"me">>, "me"),
          On("GET",   <<"check">>, "check")>>)

apiRoutes ==
    [accounting |-> accountingApiRoutes, activities |-> activitiesApiRoutes,
     ap |-> apApiRoutes, ar |-> arApiRoutes, bom |-> bomApiRoutes,
     projects |-> projectsApiRoutes, core |-> coreApiRoutes,
     tenants |-> tenantsApiRoutes, reports |-> "" :> reportsRouter,
     auth |-> "" :> authRouter]

-----------------------------------------------------------------------------
\* What Express does with a request for a mounted router.
Matches(route, verb, path) ==
    /\ route.verb = verb
    /\ Len(route.path) = Len(path)
    /\ \A i \in 1 .. Len(path) : route.path[i] \in {path[i], ":id"}

\* The handler that answers, "404" when no route takes the request.
Dispatch(router, verb, path) ==
    LET taking == SelectSeq(router.routes, LAMBDA r : Matches(r, verb, path))
    IN  IF taking = <<>> THEN "404" ELSE Head(taking).handler
=============================================================================
