------------------------------- MODULE Hooks -------------------------------
(***************************************************************************)
(* The client's hooks over TanStack Query.  A query keeps the answer to a  *)
(* request under a key; a mutation makes a request and, when it succeeds,  *)
(* invalidates the queries whose key starts with one of some prefixes.  A  *)
(* key holds what the code puts there; "params" and "id" stand for the     *)
(* listing's filter and the id of a record.                                *)
(***************************************************************************)
EXTENDS ApiClient

Watch(key, request) == [key |-> key, request |-> request]
Change(request, keys) == [request |-> request, stale |-> keys]

\* The hooks of a resource over its service: reads under its key, writes that
\* invalidate it and whatever else the file says.
Usual == {"list", "getById", "create", "update", "archive", "restore"}
Resource(key, api, names, also) ==
    [n \in names |->
        CASE n = "list"    -> Watch(<<key, "params">>, api.list)
          [] n = "getById" -> Watch(<<key, "id">>, api.getById)
          [] OTHER         -> Change(api[n], {<<key>>} \cup also)]

useChartOfAccounts == Resource("chartOfAccounts", chartOfAccountsApi, Usual, {})
useJournalEntries ==
    "post" :> Change(journalEntryApi.post,
                     {<<"journalEntries">>, <<"ledgerBalances">>,
                      <<"postingQueues">>})
        @@ "reverse" :> Change(journalEntryApi.reverse,
                               {<<"journalEntries">>, <<"ledgerBalances">>})
        @@ Resource("journalEntries", journalEntryApi, Usual, {})
useJournalEntryLines ==
    Resource("journalEntryLines", journalEntryLineApi, Usual \ {"getById"}, {})
useLedgerBalances ==
    Resource("ledgerBalances", ledgerBalanceApi, {"list", "getById"}, {})
usePostingQueues ==
    "retry" :> Change(postingQueueApi.retry,
                      {<<"postingQueues">>, <<"journalEntries">>,
                       <<"ledgerBalances">>})
        @@ Resource("postingQueues", postingQueueApi, {"list"}, {})
useCategoryAccountMap ==
    Resource("categoryAccountMap", categoryAccountMapApi, Usual \ {"getById"},
             {})
useCompanyAccounts ==
    Resource("companyAccounts", companyAccountApi, Usual \ {"getById"}, {})
useCompanyTransactions ==
    Resource("companyTransactions", companyTransactionApi, Usual \ {"getById"},
             {})
useInternalTransfers ==
    Resource("internalTransfers", internalTransferApi, Usual \ {"getById"}, {})

useActivities == Resource("activities", activityApi, Usual \ {"getById"}, {})
useActualCosts ==
    Resource("actualCosts", actualCostApi, Usual \ {"getById", "restore"}, {})
useAddresses == Resource("addresses", addressApi, Usual \ {"getById"}, {})

useApInvoices == Resource("apInvoices", apInvoiceApi, Usual, {})
useApInvoiceLines ==
    Resource("apInvoiceLines", apInvoiceLineApi, Usual \ {"getById"},
             {<<"apInvoices">>})
\* Mutant: the hooks of payments invalidate the payments only.
PaymentsAlone == Resource("payments", paymentApi, Usual, {})

usePayments == Resource("payments", paymentApi, Usual, {<<"apInvoices">>})
useApCreditMemos ==
    Resource("apCreditMemos", apCreditMemoApi, Usual, {<<"apInvoices">>})

useArInvoices ==
    "approve" :> Change(arInvoiceApi.approve, {<<"arInvoices">>})
        @@ Resource("arInvoices", arInvoiceApi, Usual, {})
useArInvoiceLines ==
    Resource("arInvoiceLines", arInvoiceLineApi, Usual \ {"getById"},
             {<<"arInvoices">>})
useReceipts == Resource("receipts", receiptApi, Usual, {<<"arInvoices">>})

useCatalogSkus ==
    "refreshEmbeddings" :> Change(catalogSkuApi.refreshEmbeddings,
                                  {<<"catalogSkus">>})
        @@ Resource("catalogSkus", catalogSkuApi, Usual, {})
useVendorSkus ==
    "getUnmatched" :> Watch(<<"vendorSkus", "unmatched">>,
                            vendorSkuApi.getUnmatched)
        @@ "match" :> Change(vendorSkuApi.match, {})
        @@ "autoMatch" :> Change(vendorSkuApi.autoMatch,
                                 {<<"vendorSkus">>,
                                  <<"vendorSkus", "unmatched">>})
        @@ "batchMatch" :> Change(vendorSkuApi.batchMatch,
                                  {<<"vendorSkus">>,
                                   <<"vendorSkus", "unmatched">>})
        @@ "refreshEmbeddings" :> Change(vendorSkuApi.refreshEmbeddings,
                                         {<<"vendorSkus">>})
        @@ Resource("vendorSkus", vendorSkuApi, Usual, {})
useVendorPricing ==
    Resource("vendorPricing", vendorPricingApi, Usual \ {"getById"}, {})

useBudgets ==
    "createNewVersion" :> Change(budgetApi.createNewVersion, {<<"budgets">>})
        @@ Resource("budgets", budgetApi, Usual \ {"getById", "restore"}, {})
useCategories == Resource("categories", categoryApi, Usual \ {"getById"}, {})
useChangeOrders == Resource("changeOrders", changeOrderApi, Usual, {})
useClients ==
    "resetPassword" :> Change(clientApi.resetPassword, {<<"clients">>})
        @@ Resource("clients", clientApi, Usual, {})
useCompanies == Resource("companies", companyApi, Usual, {})
useContacts == Resource("contacts", contactApi, Usual \ {"getById"}, {})
useCostItems == Resource("costItems", costItemApi, Usual, {})
useCostLines ==
    Resource("costLines", costLineApi, Usual \ {"getById", "restore"}, {})
useDeliverableAssignments ==
    Resource("deliverableAssignments", deliverableAssignmentApi,
             Usual \ {"getById", "restore"}, {})
useDeliverables == Resource("deliverables", deliverableApi, Usual, {})
useEmails == Resource("emails", emailApi, Usual, {})
useEmployees ==
    "resetPassword" :> Change(employeeApi.resetPassword, {<<"employees">>})
        @@ Resource("employees", employeeApi, Usual \ {"getById"}, {})
usePhoneNumbers == Resource("phoneNumbers", phoneNumberApi, Usual, {})
useProjects == Resource("projects", projectApi, Usual, {})
useRoles == Resource("roles", roleApi, {"list", "create", "update"}, {})
useTaskGroups == Resource("taskGroups", taskGroupApi, Usual, {})
useTasks == Resource("tasks", taskApi, Usual, {})
useTasksMaster == Resource("tasksMaster", tasksMasterApi, Usual, {})
useTaxIdentifiers == Resource("taxIdentifiers", taxIdentifierApi, Usual, {})
useUnits == Resource("units", unitApi, Usual, {})
useUsers ==
    "register" :> Change(userApi.register, {<<"portal-users">>})
        @@ Resource("portal-users", userApi,
                    {"list", "getById", "update", "archive", "restore"}, {})
useVendorContacts ==
    "resetPassword" :> Change(vendorContactApi.resetPassword,
                              {<<"vendorContacts">>})
        @@ "swapLoginEmail" :> Change(vendorContactApi.swapLoginEmail,
                                      {<<"vendorContacts">>, <<"emails">>,
                                       <<"portal-users">>})
        @@ Resource("vendorContacts", vendorContactApi, Usual, {})
useVendorParts ==
    Resource("vendorParts", vendorPartApi, Usual \ {"getById", "restore"}, {})
useVendors == Resource("vendors", vendorApi, Usual, {})

\* Enabling the numbers of a kind of record gives codes to the records there are.
useNumberingConfig ==
    Resource("numberingConfig", numberingConfigApi, {"list", "update"},
             {<<"employees">>, <<"vendors">>, <<"clients">>, <<"contacts">>})
usePaymentTerms ==
    "active" :> Watch(<<"payment-terms", "active">>, paymentTermApi.list)
        @@ Resource("payment-terms", paymentTermApi, Usual \ {"getById"}, {})
useTenantPreferences ==
    "list" :> Watch(<<"tenant-preferences">>, tenantPreferencesApi.list)
        @@ Resource("tenant-preferences", tenantPreferencesApi, {"update"}, {})

\* The company, the addresses and the tax identifiers the settings page edits
\* are kept under one key, apart from those of the other pages.
useCompanyInfo ==
    LET stale == {<<"company-info">>}
        Writes(api, names) == [n \in names |-> Change(api[n], stale)]
    IN  [company   |-> Watch(<<"company-info", "company", "id">>,
                             companyApi.list),
         addresses |-> Watch(<<"company-info", "addresses", "id">>,
                             addressApi.list),
         taxIds    |-> Watch(<<"company-info", "tax-identifiers", "id">>,
                             taxIdentifierApi.list),
         create    |-> Change(companyApi.create, stale),
         address   |-> Writes(addressApi, {"create", "update", "archive"}),
         taxId     |-> Writes(taxIdentifierApi,
                              {"create", "update", "archive"})]

\* What a role may do is kept by role.
usePolicyCatalog ==
    "list" :> Watch(<<"policy-catalog">>, policyCatalogApi.list)
usePolicies ==
    "listForRole" :> Watch(<<"policies", "id">>, policyApi.listForRole)
        @@ "syncForRole" :> Change(policyApi.syncForRole,
                                   {<<"policies", "id">>})
useStateFilters ==
    "listForRole" :> Watch(<<"state-filters", "id">>,
                           stateFilterApi.listForRole)
        @@ "syncForRole" :> Change(stateFilterApi.syncForRole,
                                   {<<"state-filters", "id">>})
useFieldGroups ==
    LET definitions == <<"field-group-definitions">>
        grants == <<"field-group-grants", "id">>
    IN  "listDefinitions" :> Watch(definitions, fieldGroupApi.listDefinitions)
            @@ "listGrantsForRole" :> Watch(grants,
                                            fieldGroupApi.listGrantsForRole)
            @@ "syncGrantsForRole" :> Change(fieldGroupApi.syncGrantsForRole,
                                             {grants})
            @@ [n \in {"createDefinition", "updateDefinition",
                       "archiveDefinition"} |->
                    Change(fieldGroupApi[n], {definitions})]

\* A tenant's schemas and its users change with it.
useTenantSchemas ==
    Watch(<<"tenant-schemas">>, Get(<<"tenants", "admin">>, <<"schemas">>))
useTenants ==
    LET tenants == <<"tenants">>
        all == {tenants, <<"tenant-schemas">>, <<"portal-users">>}
    IN  "getContacts" :> Watch(<<"tenants", "id", "contacts">>,
                               tenantApi.getContacts)
            @@ "getCompany" :> Watch(<<"tenants", "id", "company">>,
                                     tenantApi.getCompany)
            @@ "update" :> Change(tenantApi.update, {tenants})
            @@ [n \in {"create", "archive", "restore"} |-> Change(tenantApi[n],
                                                                  all)]
            @@ Resource("tenants", tenantApi, {"list", "getById"}, {})

\* Reports are read, and nothing invalidates them.
useReports ==
    LET Of(key, method) == Watch(key, reportApi[method])
    IN  [profitability     |-> Of(<<"report-profitability">>,
                                  "profitabilityAll"),
         profitabilityById |-> Of(<<"report-profitability", "id">>,
                                  "profitabilityByProject"),
         cashflow          |-> Of(<<"report-cashflow", "id">>,
                                  "cashflowByProject"),
         forecast          |-> Of(<<"report-cashflow-forecast", "id">>,
                                  "cashflowForecast"),
         costBreakdown     |-> Of(<<"report-cost-breakdown", "id">>,
                                  "costBreakdownByProject"),
         arAging           |-> Of(<<"report-ar-aging">>, "arAging"),
         apAging           |-> Of(<<"report-ap-aging">>, "apAging"),
         companyCashflow   |-> Of(<<"report-company-cashflow">>,
                                  "companyCashflow"),
         margin            |-> Of(<<"report-margin-analysis", "params">>,
                                  "marginAnalysis")]

\* A sheet that is imported invalidates the keys its page names; the preview
\* that the dialog asks for first invalidates nothing.
useImportXls(api, keys) ==
    {Change(api.importXls, keys), Change(api.previewXls, {})}
=============================================================================
