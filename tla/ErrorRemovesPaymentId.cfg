CONSTANTS
    PayOfferCalls = {o1}
    GetInvoiceCalls = {}
    PayInvoiceCalls = {}
    plain = plain
    mixed = mixed
    Invoices <- MCInvoices
    Paths <- MCPaths
    NoInvoice = NoInvoice
    InvoiceTimeout = 3
    PollInterval = 2
    MaxRestarts = 0
SPECIFICATION Spec
CHECK_DEADLOCK FALSE
INVARIANT
    ErrorRemovesPaymentId
