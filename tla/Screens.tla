------------------------------ MODULE Screens ------------------------------
(***************************************************************************)
(* The pages of the client: for each the queries it shows and the requests *)
(* its buttons and dialogs can make.  A dialog disables its buttons while  *)
(* its request is out; leaving the page does not stop a request.  What a   *)
(* page lays out and how its forms are filled in is left out.              *)
(***************************************************************************)
EXTENDS Hooks, Functions

Screen(watches, offers) == [watches |-> watches, offers |-> offers]

\* Some of the mutations of a resource.
Offering(hooks, names) == {hooks[n] : n \in names}
Keeping(hooks) == Offering(hooks, {"create", "update", "archive", "restore"})

\* A handler that invalidates more once the request of a mutation succeeded.
Also(mutation, keys) == Change(mutation.request, mutation.stale \cup keys)

\* A page that lists one kind of record, keeps it, and imports sheets of it.
Register(hooks, api, key) ==
    Screen({hooks.list}, Keeping(hooks) \cup useImportXls(api, {<<key>>}))

\* A page that shows more, or offers more.
And(screen, watches, offers) ==
    Screen(screen.watches \cup watches, screen.offers \cup offers)

-----------------------------------------------------------------------------
\* Accounting.
ChartOfAccountsPage ==
    Register(useChartOfAccounts, chartOfAccountsApi, "chartOfAccounts")
JournalEntriesPage ==
    And(Register(useJournalEntries, journalEntryApi, "journalEntries"),
        {}, Offering(useJournalEntries, {"post", "reverse"}))
LedgerPage == Screen({useLedgerBalances.list}, {})

\* Payables and receivables.
ApInvoicesPage ==
    And(Register(useApInvoices, apInvoiceApi, "apInvoices"), {useVendors.list},
        {})
CreditMemosPage ==
    And(Register(useApCreditMemos, apCreditMemoApi, "apCreditMemos"),
        {useVendors.list}, {})
PaymentsPage ==
    And(Register(usePayments, paymentApi, "payments"), {useVendors.list}, {})
ArInvoicesPage ==
    And(Register(useArInvoices, arInvoiceApi, "arInvoices"),
        {useClients.list}, {useArInvoices.approve})
ReceiptsPage ==
    And(Register(useReceipts, receiptApi, "receipts"), {useClients.list}, {})

\* Activities.
ActivitiesPage ==
    And(Register(useActivities, activityApi, "activities"),
        {useCategories.list}, {})
BudgetManagementPage ==
    Screen({useBudgets.list, useDeliverables.list, useActivities.list},
           Offering(useBudgets,
                    {"create", "update", "archive", "createNewVersion"})
               \cup useImportXls(budgetApi, {<<"budgets">>}))
CategoriesPage == Register(useCategories, categoryApi, "categories")
CostTrackingPage ==
    Screen({useActualCosts.list, useActivities.list},
           Offering(useActualCosts, {"create", "update", "archive"})
               \cup useImportXls(actualCostApi, {<<"actualCosts">>}))
DeliverablesPage == Register(useDeliverables, deliverableApi, "deliverables")

\* Bill of materials.
CatalogPage ==
    And(Register(useCatalogSkus, catalogSkuApi, "catalogSkus"),
        {}, {useCatalogSkus.refreshEmbeddings})
VendorSkuMatchingPage ==
    Screen({useVendorSkus.list, useVendorSkus.getUnmatched},
           Offering(useVendorSkus, {"match", "autoMatch", "batchMatch",
                                    "refreshEmbeddings"}))

\* Projects.
ChangeOrdersPage == Register(useChangeOrders, changeOrderApi, "changeOrders")
ProjectDetailPage ==
    Screen({useProjects.getById, useUnits.list, useTasks.list,
            useCostItems.list},
           Keeping(useUnits) \cup Keeping(useTasks) \cup Keeping(useCostItems))
ProjectsPage == Register(useProjects, projectApi, "projects")

-----------------------------------------------------------------------------
\* Core records have addresses and the like under them, which the dialogs of
\* a record list and save with it, one request after the other.
Places == {useAddresses, useTaxIdentifiers}
Collections == Places \cup {useEmails, usePhoneNumbers}
With(screen, collections) ==
    And(screen, {h.list : h \in collections},
        UNION {Offering(h,
                        {"create", "update", "archive"}) : h \in collections})

\* Saving a person invalidates the logins too when it gives or takes one.
Users == <<"portal-users">>

useClientEditCollections ==
    {useClients.update, Also(useClients.update, {Users})}
ClientsPage ==
    With(Screen({useClients.list, useRoles.list},
                Offering(useClients, {"create", "archive", "restore",
                                      "resetPassword"})
                    \cup useClientEditCollections
                    \cup useImportXls(clientApi, {<<"clients">>, Users})),
         Collections)

useEmployeeEditCollections ==
    {useEmployees.update, Also(useEmployees.update, {Users})}
EmployeesPage ==
    With(Screen({useEmployees.list, useRoles.list},
                Offering(useEmployees, {"create", "archive", "restore",
                                        "resetPassword"})
                    \cup useEmployeeEditCollections
                    \cup useImportXls(employeeApi, {<<"employees">>, Users})),
         Collections)

useCompanyEditCollections == Offering(useCompanies, {"update"})
CompaniesPage ==
    With(Screen({useCompanies.list},
                Offering(useCompanies, {"create", "archive", "restore"})
                    \cup useCompanyEditCollections
                    \cup useImportXls(companyApi, {<<"companies">>})),
         Places)

useStandaloneContactEditCollections == Offering(useContacts, {"update"})
ContactsPage ==
    With(Screen({useContacts.list},
                Offering(useContacts, {"create", "archive", "restore"})
                    \cup useStandaloneContactEditCollections
                    \cup useImportXls(contactApi, {<<"contacts">>})),
         Collections)

\* A vendor's contacts are kept from the vendor's dialog; the address of a
\* contact's login is swapped by a request of its own.
useVendorContactDialogs ==
    Offering(useVendorContacts, {"create", "update", "archive", "restore",
                                 "resetPassword", "swapLoginEmail"})
        \cup {Also(useVendorContacts.update, {Users})}
useVendorEditCollections == Offering(useVendors, {"update"})
VendorsPage ==
    With(Screen({useVendors.list, useRoles.list, usePaymentTerms.active,
                 useVendorContacts.list},
                Offering(useVendors, {"create", "archive", "restore"})
                    \cup useVendorEditCollections \cup useVendorContactDialogs
                    \cup {Change(vendorApi.importCombinedXls,
                                 {<<"vendors">>, <<"vendorContacts">>}),
                          Change(vendorApi.previewCombinedXls, {})}),
         Collections)

-----------------------------------------------------------------------------
\* Reports.
ApAgingPage == Screen({useReports.apAging}, {})
ArAgingPage == Screen({useReports.arAging}, {})
CostBreakdownPage == Screen({useProjects.list, useReports.costBreakdown}, {})
MarginAnalysisPage == Screen({useReports.margin}, {})
ProjectCashflowPage == Screen({useProjects.list, useReports.cashflow}, {})
ProjectProfitabilityPage == Screen({useReports.profitability}, {})
CompanyCashflowPage == Screen({useReports.companyCashflow}, {})
DashboardPage ==
    Screen({useReports.profitability, useReports.arAging, useReports.apAging,
            useReports.companyCashflow}, {})

-----------------------------------------------------------------------------
\* Settings.  No route leads to the page of the company.
CompanyInfoPage ==
    Screen({useCompanyInfo[n] : n \in {"company", "addresses", "taxIds"}},
           {useCompanyInfo.create} \cup Range(useCompanyInfo.address)
               \cup Range(useCompanyInfo.taxId))
NumberingConfigPage ==
    Screen({useNumberingConfig.list}, {useNumberingConfig.update})
PaymentTermsPage == Register(usePaymentTerms, paymentTermApi, "payment-terms")
PreferencesPage ==
    Screen({useTenantPreferences.list}, {useTenantPreferences.update})

\* Roles: the page of the roles holds the editors of what each may do.
PolicyEditor ==
    Screen({usePolicyCatalog.list, usePolicies.listForRole},
           {usePolicies.syncForRole})
StateFilterEditor ==
    Screen({usePolicyCatalog.list, useStateFilters.listForRole},
           {useStateFilters.syncForRole})
FieldGroupEditor ==
    Screen({usePolicyCatalog.list, useFieldGroups.listDefinitions,
            useFieldGroups.listGrantsForRole}, {useFieldGroups.syncGrantsForRole})
FieldGroupDefinitionEditor ==
    Screen({usePolicyCatalog.list, useFieldGroups.listDefinitions},
           Offering(useFieldGroups, {"createDefinition", "updateDefinition",
                                     "archiveDefinition"}))
ManageRolesPage ==
    LET editors == {PolicyEditor, StateFilterEditor, FieldGroupEditor,
                    FieldGroupDefinitionEditor}
    IN  Screen({useRoles.list} \cup UNION {e.watches : e \in editors},
               {useRoles.create, useRoles.update}
                   \cup UNION {e.offers : e \in editors})

\* Tenants and their users, for the root tenant.
CreateTenantWizard == {useTenants.create}
ManageTenantsPage ==
    Screen({useTenants.list, useTenants.getContacts, useTenants.getCompany},
           CreateTenantWizard
               \cup Offering(useTenants, {"update", "archive", "restore"})
               \cup useImportXls(tenantApi,
                                 {<<"tenants">>, <<"tenant-schemas">>}))
ManageUsersPage == Screen({useUsers.list}, {useUsers.update})
PlatformMaintenancePage ==
    Screen({}, {Change(orphanPortalUsersApi.cleanupOrphan, {})})

\* Every page has these around it: the tenants to choose from, the tenant's
\* preferences, and the user's own password.
LayoutShell ==
    Screen({useTenantSchemas, useTenantPreferences.list},
           {Change(authApi.changePassword, {})})

App ==
    {ChartOfAccountsPage, JournalEntriesPage, LedgerPage, ApInvoicesPage,
     CreditMemosPage, PaymentsPage, ArInvoicesPage, ReceiptsPage, ActivitiesPage,
     BudgetManagementPage, CategoriesPage, CostTrackingPage, DeliverablesPage,
     CatalogPage, VendorSkuMatchingPage, ChangeOrdersPage, ProjectDetailPage,
     ProjectsPage, ClientsPage, EmployeesPage, CompaniesPage, ContactsPage,
     VendorsPage, ApAgingPage, ArAgingPage, CostBreakdownPage,
     MarginAnalysisPage, ProjectCashflowPage, ProjectProfitabilityPage,
     CompanyCashflowPage, DashboardPage, NumberingConfigPage,
     PaymentTermsPage, PreferencesPage, ManageRolesPage, ManageTenantsPage,
     ManageUsersPage, PlatformMaintenancePage}
=============================================================================
