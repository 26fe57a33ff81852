------------------------------- MODULE ErpCrm -------------------------------
(***************************************************************************)
(* GoERP: CRM, in the form of ErpOffice.                                    *)
(***************************************************************************)
EXTENDS ErpSchema

(* crm_repo.go *)

LeadFields ==
    {"id", "tenant_id", "name", "email", "phone", "company", "source", "status",
     "assigned_to", "notes", "created_by"} \cup Stamps

ListLeads == Select("crm_leads", LeadFields)
GetLead == Get("crm_leads", LeadFields)
InsertLead == Insert("crm_leads", LeadFields)
SetLead == Update("crm_leads", LeadFields \ {"created_by", "created_at"})
DeleteLead == Delete("crm_leads")

OpportunityFields ==
    {"id", "tenant_id", "name", "lead_id", "customer_name", "customer_email",
     "customer_phone", "company", "stage", "expected_revenue", "probability",
     "expected_close", "assigned_to", "description", "lost_reason", "created_by"}
    \cup Stamps

ListOpportunities == Select("crm_opportunities", OpportunityFields)
GetOpportunity == Get("crm_opportunities", OpportunityFields)
InsertOpportunity == Insert("crm_opportunities", OpportunityFields)
SetOpportunity ==
    Update("crm_opportunities", OpportunityFields \ {"lead_id", "created_by", "created_at"})

ActivityFields ==
    {"id", "tenant_id", "type", "title", "description", "lead_id", "opportunity_id",
     "assigned_to", "due_date", "is_done", "created_by"} \cup Stamps

ListActivities == Select("crm_activities", ActivityFields \cup {"completed_at"})
InsertActivity == Insert("crm_activities", ActivityFields)
SetCompleted == Update("crm_activities", {"is_done", "completed_at", "updated_at"})

GetPipelineStats ==
    << Drops(Count("crm_leads")), Drops(Select("crm_opportunities", {"expected_revenue"})),
       Drops(Select("crm_opportunities", {"stage"})),
       Drops(Select("crm_opportunities", {"stage", "expected_revenue"})) >>

(* crm_usecase.go *)

CreateLead == << Validates, Must(InsertLead), Must(PublishEvent("LeadCreated")) >>
UpdateLead == << Must(GetLead), Must(SetLead) >>
CreateOpportunity == << Validates, Must(InsertOpportunity) >>

\* The lead is marked as qualified at the end, if that succeeds.
ConvertToOpportunity == << Must(GetLead) >> \o CreateOpportunity \o << Drops(SetLead) >>

UpdateOpportunity == << Must(GetOpportunity), Must(SetOpportunity) >>
WinOpportunity == << Must(GetOpportunity), Must(SetOpportunity) >>
LoseOpportunity == << Must(GetOpportunity), Must(SetOpportunity) >>
CreateActivity == << Validates, Must(InsertActivity) >>

(* crm_handler.go *)

LeadCalls == {
    Call("ListLeads", << Must(ListLeads) >>, 200, 500),
    Call("GetLead", << Must(GetLead) >>, 200, 404),
    Call("CreateLead", CreateLead, 201, 400),
    Call("UpdateLead", UpdateLead, 200, 400),
    Call("DeleteLead", << Must(DeleteLead) >>, 200, 500),
    Call("ConvertToOpportunity", ConvertToOpportunity, 201, 400) }

OpportunityCalls == {
    Call("ListOpportunities", << Must(ListOpportunities) >>, 200, 500),
    Call("GetOpportunity", << Must(GetOpportunity) >>, 200, 404),
    Call("CreateOpportunity", CreateOpportunity, 201, 400),
    Call("UpdateOpportunity", UpdateOpportunity, 200, 400),
    Call("WinOpportunity", WinOpportunity, 200, 400),
    Call("LoseOpportunity", LoseOpportunity, 200, 400) }

ActivityCalls == {
    Call("ListActivities", << Must(ListActivities) >>, 200, 500),
    Call("CreateActivity", CreateActivity, 201, 400),
    Call("CompleteActivity", << Must(SetCompleted) >>, 200, 500),
    Call("GetPipelineStats", GetPipelineStats, 200, 500) }
=============================================================================
